---- MODULE Spec2Model ----
(***************************************************************************)
(* Model of simplegallery/spg-init.py: the gallery initialiser.            *)
(*                                                                         *)
(* The file system under one gallery root is the shared state; each        *)
(* invocation of main() is a process that walks through the calls of       *)
(* main(), one file-system call or one blocking input() per step.  The     *)
(* two copy_tree calls and the write of gallery.json are sequences of      *)
(* file-system calls, and invocations that overlap interleave at each.     *)
(*                                                                         *)
(* A str (a file name, the root given with --path, a path os.path.join     *)
(* builds, an answer to a prompt) is the sequence of the code points of    *)
(* its characters, so that lower(), endswith(), isdigit(), int(), fnmatch  *)
(* and the escapes of json.dump are computed on the characters as Python   *)
(* 3.11 computes them, with the tables of its Unicode database (14.0.0).   *)
(* An int is its sign and its decimal digits, of any number.  glob is      *)
(* computed for a root each of whose directories is the only entry of the  *)
(* directory above it.                                                     *)
(*                                                                         *)
(* Environment assumptions: when the root exists it is a directory, the    *)
(* entries gallery.json, images_data.json and index_template.html are      *)
(* regular files, public is a directory, and file-system calls on existing *)
(* entries do not fail (no permission or disk-full errors).  A call on an  *)
(* entry that another invocation has removed fails as the call does.       *)
(***************************************************************************)
EXTENDS Integers, Sequences, FiniteSets, TLC

VARIABLES
    fs,            \* the file system under the gallery root
    pc,            \* per invocation: the call of main() it is about to make
    force,         \* per invocation: args.force
    cfg,           \* per invocation: gallery_config
    pending,       \* per invocation: the listed media paths not yet moved
    todo,          \* per invocation: the template entries not yet copied
    io,            \* per invocation: the file copy_tree is copying, and where
    fs0,           \* per invocation: the file system when it started
    fsAtCheck,     \* per invocation: the file system at its marker check
    existsResult,  \* per invocation: what its marker check returned
    asked,         \* per invocation: the prompts it has shown
    answered,      \* per invocation: the prompts that got an answer
    waiting,       \* per invocation: it is blocked in input(), prompt shown
    inp,           \* per invocation: the last answer to each prompt
    wrote,         \* per invocation: it has changed the file system
    outcome,       \* per invocation: how it ended
    status,        \* per invocation: its exit status as a shell reports it
                   \* (130: ended by SIGINT), -1 while running
    hist,          \* the invocations that have ended, in order
    runsLeft,      \* invocations that may still start
    lastWriter,    \* the invocation that last wrote gallery.json
    given          \* the options and answers the invocations may be given

vars == <<fs, pc, force, cfg, pending, todo, io, fs0, fsAtCheck, existsResult,
          asked, answered, inp, wrote, outcome, status, hist, runsLeft,
          lastWriter, given, waiting>>

(***************************************************************************)
(* Bounds of the model.                                                    *)
(***************************************************************************)
\* Number of invocations of main(), one after the other, in one behaviour.
MaxRuns == 2

\* The invocations: p1 runs in the sequential specification, p1 and p2 in
\* the concurrent one.
Procs == {"p1", "p2"}

(***************************************************************************)
(* Characters and strings.                                                 *)
(***************************************************************************)
\* A character is its Unicode code point, and a str is the sequence of its
\* characters.  The printable ASCII characters, from the blank (32) to the
\* tilde (126), in the order of their code points; the backslash and the
\* backtick, which a string of this notation cannot hold, are written by
\* name.
Ascii ==
    <<" ", "!", "\"", "#", "$", "%", "&", "'", "(", ")", "*", "+", ",", "-",
      ".", "/", "0", "1", "2", "3", "4", "5", "6", "7", "8", "9", ":", ";",
      "<", "=", ">", "?", "@", "A", "B", "C", "D", "E", "F", "G", "H", "I",
      "J", "K", "L", "M", "N", "O", "P", "Q", "R", "S", "T", "U", "V", "W",
      "X", "Y", "Z", "[", "backslash", "]", "^", "_", "backtick", "a", "b",
      "c", "d", "e", "f", "g", "h", "i", "j", "k", "l", "m", "n", "o", "p",
      "q", "r", "s", "t", "u", "v", "w", "x", "y", "z", "{", "|", "}", "~">>

\* ord(ch) of a printable ASCII character.
Ord(ch) == 31 + CHOOSE i \in 1..Len(Ascii) : Ascii[i] = ch

\* The str of the given printable ASCII characters.
Str(chars) == [i \in 1..Len(chars) |-> Ord(chars[i])]

Slash == Ord("/")
Dot == Ord(".")
Star == Ord("*")
Question == Ord("?")
LBracket == Ord("[")
RBracket == Ord("]")
Bang == Ord("!")
Hyphen == Ord("-")
Plus == Ord("+")
Underscore == Ord("_")
Zero == Ord("0")

\* LATIN CAPITAL LETTER E WITH ACUTE
CapitalEAcute == 201
\* SUPERSCRIPT TWO: a digit for str.isdigit(), no decimal digit for int().
SuperscriptTwo == 178
\* ARABIC-INDIC DIGIT ZERO: a decimal digit of another script.
ArabicIndicZero == 1632
\* GREEK CAPITAL LETTER SIGMA and its two lowercase forms.
CapitalSigma == 931
FinalSmallSigma == 962
SmallSigma == 963

Least(S) == CHOOSE x \in S : \A y \in S : x <= y
Greatest(S) == CHOOSE x \in S : \A y \in S : y <= x

\* The character is in one of the ranges of the table.
InRanges(c, ranges) ==
    \E i \in 1..Len(ranges) : ranges[i][1] <= c /\ c <= ranges[i][2]

\* The characters beyond ASCII whose lowercase is one other character, by
\* the Unicode database of the interpreter (14.0.0): <<lo, hi, step, d>>
\* stands for the characters lo, lo + step, ... hi, each of which has the
\* lowercase c + d.
LowerRanges ==
    << <<192,214,1,32>>, <<216,222,1,32>>, <<256,302,2,1>>, <<306,310,2,1>>,
       <<313,327,2,1>>, <<330,374,2,1>>, <<376,376,1,-121>>, <<377,381,2,1>>,
       <<385,385,1,210>>, <<386,388,2,1>>, <<390,390,1,206>>, <<391,391,1,1>>,
       <<393,394,1,205>>, <<395,395,1,1>>, <<398,398,1,79>>, <<399,399,1,202>>,
       <<400,400,1,203>>, <<401,401,1,1>>, <<403,403,1,205>>,
       <<404,404,1,207>>, <<406,406,1,211>>, <<407,407,1,209>>,
       <<408,408,1,1>>, <<412,412,1,211>>, <<413,413,1,213>>,
       <<415,415,1,214>>, <<416,420,2,1>>, <<422,422,1,218>>, <<423,423,1,1>>,
       <<425,425,1,218>>, <<428,428,1,1>>, <<430,430,1,218>>, <<431,431,1,1>>,
       <<433,434,1,217>>, <<435,437,2,1>>, <<439,439,1,219>>, <<440,440,1,1>>,
       <<444,444,1,1>>, <<452,452,1,2>>, <<453,453,1,1>>, <<455,455,1,2>>,
       <<456,456,1,1>>, <<458,458,1,2>>, <<459,475,2,1>>, <<478,494,2,1>>,
       <<497,497,1,2>>, <<498,500,2,1>>, <<502,502,1,-97>>, <<503,503,1,-56>>,
       <<504,542,2,1>>, <<544,544,1,-130>>, <<546,562,2,1>>,
       <<570,570,1,10795>>, <<571,571,1,1>>, <<573,573,1,-163>>,
       <<574,574,1,10792>>, <<577,577,1,1>>, <<579,579,1,-195>>,
       <<580,580,1,69>>, <<581,581,1,71>>, <<582,590,2,1>>, <<880,882,2,1>>,
       <<886,886,1,1>>, <<895,895,1,116>>, <<902,902,1,38>>, <<904,906,1,37>>,
       <<908,908,1,64>>, <<910,911,1,63>>, <<913,929,1,32>>, <<931,939,1,32>>,
       <<975,975,1,8>>, <<984,1006,2,1>>, <<1012,1012,1,-60>>,
       <<1015,1015,1,1>>, <<1017,1017,1,-7>>, <<1018,1018,1,1>>,
       <<1021,1023,1,-130>>, <<1024,1039,1,80>>, <<1040,1071,1,32>>,
       <<1120,1152,2,1>>, <<1162,1214,2,1>>, <<1216,1216,1,15>>,
       <<1217,1229,2,1>>, <<1232,1326,2,1>>, <<1329,1366,1,48>>,
       <<4256,4293,1,7264>>, <<4295,4295,1,7264>>, <<4301,4301,1,7264>>,
       <<5024,5103,1,38864>>, <<5104,5109,1,8>>, <<7312,7354,1,-3008>>,
       <<7357,7359,1,-3008>>, <<7680,7828,2,1>>, <<7838,7838,1,-7615>>,
       <<7840,7934,2,1>>, <<7944,7951,1,-8>>, <<7960,7965,1,-8>>,
       <<7976,7983,1,-8>>, <<7992,7999,1,-8>>, <<8008,8013,1,-8>>,
       <<8025,8031,2,-8>>, <<8040,8047,1,-8>>, <<8072,8079,1,-8>>,
       <<8088,8095,1,-8>>, <<8104,8111,1,-8>>, <<8120,8121,1,-8>>,
       <<8122,8123,1,-74>>, <<8124,8124,1,-9>>, <<8136,8139,1,-86>>,
       <<8140,8140,1,-9>>, <<8152,8153,1,-8>>, <<8154,8155,1,-100>>,
       <<8168,8169,1,-8>>, <<8170,8171,1,-112>>, <<8172,8172,1,-7>>,
       <<8184,8185,1,-128>>, <<8186,8187,1,-126>>, <<8188,8188,1,-9>>,
       <<8486,8486,1,-7517>>, <<8490,8490,1,-8383>>, <<8491,8491,1,-8262>>,
       <<8498,8498,1,28>>, <<8544,8559,1,16>>, <<8579,8579,1,1>>,
       <<9398,9423,1,26>>, <<11264,11311,1,48>>, <<11360,11360,1,1>>,
       <<11362,11362,1,-10743>>, <<11363,11363,1,-3814>>,
       <<11364,11364,1,-10727>>, <<11367,11371,2,1>>, <<11373,11373,1,-10780>>,
       <<11374,11374,1,-10749>>, <<11375,11375,1,-10783>>,
       <<11376,11376,1,-10782>>, <<11378,11378,1,1>>, <<11381,11381,1,1>>,
       <<11390,11391,1,-10815>>, <<11392,11490,2,1>>, <<11499,11501,2,1>>,
       <<11506,11506,1,1>>, <<42560,42604,2,1>>, <<42624,42650,2,1>>,
       <<42786,42798,2,1>>, <<42802,42862,2,1>>, <<42873,42875,2,1>>,
       <<42877,42877,1,-35332>>, <<42878,42886,2,1>>, <<42891,42891,1,1>>,
       <<42893,42893,1,-42280>>, <<42896,42898,2,1>>, <<42902,42920,2,1>>,
       <<42922,42922,1,-42308>>, <<42923,42923,1,-42319>>,
       <<42924,42924,1,-42315>>, <<42925,42925,1,-42305>>,
       <<42926,42926,1,-42308>>, <<42928,42928,1,-42258>>,
       <<42929,42929,1,-42282>>, <<42930,42930,1,-42261>>,
       <<42931,42931,1,928>>, <<42932,42946,2,1>>, <<42948,42948,1,-48>>,
       <<42949,42949,1,-42307>>, <<42950,42950,1,-35384>>, <<42951,42953,2,1>>,
       <<42960,42960,1,1>>, <<42966,42968,2,1>>, <<42997,42997,1,1>>,
       <<65313,65338,1,32>>, <<66560,66599,1,40>>, <<66736,66771,1,40>>,
       <<66928,66964,2,39>>, <<66929,66937,2,39>>, <<66941,66953,2,39>>,
       <<66957,66961,2,39>>, <<66965,66965,1,39>>, <<68736,68786,1,64>>,
       <<71840,71871,1,32>>, <<93760,93791,1,32>>, <<125184,125217,1,34>> >>

\* The characters with the Unicode property Cased, as <<lo, hi>>.
CasedRanges ==
    << <<65,90>>, <<97,122>>, <<170,170>>, <<181,181>>, <<186,186>>,
       <<192,214>>, <<216,246>>, <<248,442>>, <<444,447>>, <<452,659>>,
       <<661,696>>, <<704,705>>, <<736,740>>, <<837,837>>, <<880,883>>,
       <<886,887>>, <<890,893>>, <<895,895>>, <<902,902>>, <<904,906>>,
       <<908,908>>, <<910,929>>, <<931,1013>>, <<1015,1153>>, <<1162,1327>>,
       <<1329,1366>>, <<1376,1416>>, <<4256,4293>>, <<4295,4295>>,
       <<4301,4301>>, <<4304,4346>>, <<4349,4351>>, <<5024,5109>>,
       <<5112,5117>>, <<7296,7304>>, <<7312,7354>>, <<7357,7359>>,
       <<7424,7615>>, <<7680,7957>>, <<7960,7965>>, <<7968,8005>>,
       <<8008,8013>>, <<8016,8023>>, <<8025,8025>>, <<8027,8027>>,
       <<8029,8029>>, <<8031,8061>>, <<8064,8116>>, <<8118,8124>>,
       <<8126,8126>>, <<8130,8132>>, <<8134,8140>>, <<8144,8147>>,
       <<8150,8155>>, <<8160,8172>>, <<8178,8180>>, <<8182,8188>>,
       <<8305,8305>>, <<8319,8319>>, <<8336,8348>>, <<8450,8450>>,
       <<8455,8455>>, <<8458,8467>>, <<8469,8469>>, <<8473,8477>>,
       <<8484,8484>>, <<8486,8486>>, <<8488,8488>>, <<8490,8493>>,
       <<8495,8500>>, <<8505,8505>>, <<8508,8511>>, <<8517,8521>>,
       <<8526,8526>>, <<8544,8575>>, <<8579,8580>>, <<9398,9449>>,
       <<11264,11492>>, <<11499,11502>>, <<11506,11507>>, <<11520,11557>>,
       <<11559,11559>>, <<11565,11565>>, <<42560,42605>>, <<42624,42653>>,
       <<42786,42887>>, <<42891,42894>>, <<42896,42954>>, <<42960,42961>>,
       <<42963,42963>>, <<42965,42969>>, <<42997,42998>>, <<43000,43002>>,
       <<43824,43866>>, <<43868,43880>>, <<43888,43967>>, <<64256,64262>>,
       <<64275,64279>>, <<65313,65338>>, <<65345,65370>>, <<66560,66639>>,
       <<66736,66771>>, <<66776,66811>>, <<66928,66938>>, <<66940,66954>>,
       <<66956,66962>>, <<66964,66965>>, <<66967,66977>>, <<66979,66993>>,
       <<66995,67001>>, <<67003,67004>>, <<67456,67456>>, <<67459,67461>>,
       <<67463,67504>>, <<67506,67514>>, <<68736,68786>>, <<68800,68850>>,
       <<71840,71903>>, <<93760,93823>>, <<119808,119892>>, <<119894,119964>>,
       <<119966,119967>>, <<119970,119970>>, <<119973,119974>>,
       <<119977,119980>>, <<119982,119993>>, <<119995,119995>>,
       <<119997,120003>>, <<120005,120069>>, <<120071,120074>>,
       <<120077,120084>>, <<120086,120092>>, <<120094,120121>>,
       <<120123,120126>>, <<120128,120132>>, <<120134,120134>>,
       <<120138,120144>>, <<120146,120485>>, <<120488,120512>>,
       <<120514,120538>>, <<120540,120570>>, <<120572,120596>>,
       <<120598,120628>>, <<120630,120654>>, <<120656,120686>>,
       <<120688,120712>>, <<120714,120744>>, <<120746,120770>>,
       <<120772,120779>>, <<122624,122633>>, <<122635,122654>>,
       <<125184,125251>>, <<127280,127305>>, <<127312,127337>>,
       <<127344,127369>> >>

\* The characters with the Unicode property Case_Ignorable, as <<lo, hi>>.
CaseIgnorableRanges ==
    << <<39,39>>, <<46,46>>, <<58,58>>, <<94,94>>, <<96,96>>, <<168,168>>,
       <<173,173>>, <<175,175>>, <<180,180>>, <<183,184>>, <<688,879>>,
       <<884,885>>, <<890,890>>, <<900,901>>, <<903,903>>, <<1155,1161>>,
       <<1369,1369>>, <<1375,1375>>, <<1425,1469>>, <<1471,1471>>,
       <<1473,1474>>, <<1476,1477>>, <<1479,1479>>, <<1524,1524>>,
       <<1536,1541>>, <<1552,1562>>, <<1564,1564>>, <<1600,1600>>,
       <<1611,1631>>, <<1648,1648>>, <<1750,1757>>, <<1759,1768>>,
       <<1770,1773>>, <<1807,1807>>, <<1809,1809>>, <<1840,1866>>,
       <<1958,1968>>, <<2027,2037>>, <<2042,2042>>, <<2045,2045>>,
       <<2070,2093>>, <<2137,2139>>, <<2184,2184>>, <<2192,2193>>,
       <<2200,2207>>, <<2249,2306>>, <<2362,2362>>, <<2364,2364>>,
       <<2369,2376>>, <<2381,2381>>, <<2385,2391>>, <<2402,2403>>,
       <<2417,2417>>, <<2433,2433>>, <<2492,2492>>, <<2497,2500>>,
       <<2509,2509>>, <<2530,2531>>, <<2558,2558>>, <<2561,2562>>,
       <<2620,2620>>, <<2625,2626>>, <<2631,2632>>, <<2635,2637>>,
       <<2641,2641>>, <<2672,2673>>, <<2677,2677>>, <<2689,2690>>,
       <<2748,2748>>, <<2753,2757>>, <<2759,2760>>, <<2765,2765>>,
       <<2786,2787>>, <<2810,2815>>, <<2817,2817>>, <<2876,2876>>,
       <<2879,2879>>, <<2881,2884>>, <<2893,2893>>, <<2901,2902>>,
       <<2914,2915>>, <<2946,2946>>, <<3008,3008>>, <<3021,3021>>,
       <<3072,3072>>, <<3076,3076>>, <<3132,3132>>, <<3134,3136>>,
       <<3142,3144>>, <<3146,3149>>, <<3157,3158>>, <<3170,3171>>,
       <<3201,3201>>, <<3260,3260>>, <<3263,3263>>, <<3270,3270>>,
       <<3276,3277>>, <<3298,3299>>, <<3328,3329>>, <<3387,3388>>,
       <<3393,3396>>, <<3405,3405>>, <<3426,3427>>, <<3457,3457>>,
       <<3530,3530>>, <<3538,3540>>, <<3542,3542>>, <<3633,3633>>,
       <<3636,3642>>, <<3654,3662>>, <<3761,3761>>, <<3764,3772>>,
       <<3782,3782>>, <<3784,3789>>, <<3864,3865>>, <<3893,3893>>,
       <<3895,3895>>, <<3897,3897>>, <<3953,3966>>, <<3968,3972>>,
       <<3974,3975>>, <<3981,3991>>, <<3993,4028>>, <<4038,4038>>,
       <<4141,4144>>, <<4146,4151>>, <<4153,4154>>, <<4157,4158>>,
       <<4184,4185>>, <<4190,4192>>, <<4209,4212>>, <<4226,4226>>,
       <<4229,4230>>, <<4237,4237>>, <<4253,4253>>, <<4348,4348>>,
       <<4957,4959>>, <<5906,5908>>, <<5938,5939>>, <<5970,5971>>,
       <<6002,6003>>, <<6068,6069>>, <<6071,6077>>, <<6086,6086>>,
       <<6089,6099>>, <<6103,6103>>, <<6109,6109>>, <<6155,6159>>,
       <<6211,6211>>, <<6277,6278>>, <<6313,6313>>, <<6432,6434>>,
       <<6439,6440>>, <<6450,6450>>, <<6457,6459>>, <<6679,6680>>,
       <<6683,6683>>, <<6742,6742>>, <<6744,6750>>, <<6752,6752>>,
       <<6754,6754>>, <<6757,6764>>, <<6771,6780>>, <<6783,6783>>,
       <<6823,6823>>, <<6832,6862>>, <<6912,6915>>, <<6964,6964>>,
       <<6966,6970>>, <<6972,6972>>, <<6978,6978>>, <<7019,7027>>,
       <<7040,7041>>, <<7074,7077>>, <<7080,7081>>, <<7083,7085>>,
       <<7142,7142>>, <<7144,7145>>, <<7149,7149>>, <<7151,7153>>,
       <<7212,7219>>, <<7222,7223>>, <<7288,7293>>, <<7376,7378>>,
       <<7380,7392>>, <<7394,7400>>, <<7405,7405>>, <<7412,7412>>,
       <<7416,7417>>, <<7468,7530>>, <<7544,7544>>, <<7579,7679>>,
       <<8125,8125>>, <<8127,8129>>, <<8141,8143>>, <<8157,8159>>,
       <<8173,8175>>, <<8189,8190>>, <<8203,8207>>, <<8216,8217>>,
       <<8228,8228>>, <<8231,8231>>, <<8234,8238>>, <<8288,8292>>,
       <<8294,8303>>, <<8305,8305>>, <<8319,8319>>, <<8336,8348>>,
       <<8400,8432>>, <<11388,11389>>, <<11503,11505>>, <<11631,11631>>,
       <<11647,11647>>, <<11744,11775>>, <<11823,11823>>, <<12293,12293>>,
       <<12330,12333>>, <<12337,12341>>, <<12347,12347>>, <<12441,12446>>,
       <<12540,12542>>, <<40981,40981>>, <<42232,42237>>, <<42508,42508>>,
       <<42607,42610>>, <<42612,42621>>, <<42623,42623>>, <<42652,42655>>,
       <<42736,42737>>, <<42752,42785>>, <<42864,42864>>, <<42888,42890>>,
       <<42994,42996>>, <<43000,43001>>, <<43010,43010>>, <<43014,43014>>,
       <<43019,43019>>, <<43045,43046>>, <<43052,43052>>, <<43204,43205>>,
       <<43232,43249>>, <<43263,43263>>, <<43302,43309>>, <<43335,43345>>,
       <<43392,43394>>, <<43443,43443>>, <<43446,43449>>, <<43452,43453>>,
       <<43471,43471>>, <<43493,43494>>, <<43561,43566>>, <<43569,43570>>,
       <<43573,43574>>, <<43587,43587>>, <<43596,43596>>, <<43632,43632>>,
       <<43644,43644>>, <<43696,43696>>, <<43698,43700>>, <<43703,43704>>,
       <<43710,43711>>, <<43713,43713>>, <<43741,43741>>, <<43756,43757>>,
       <<43763,43764>>, <<43766,43766>>, <<43867,43871>>, <<43881,43883>>,
       <<44005,44005>>, <<44008,44008>>, <<44013,44013>>, <<64286,64286>>,
       <<64434,64450>>, <<65024,65039>>, <<65043,65043>>, <<65056,65071>>,
       <<65106,65106>>, <<65109,65109>>, <<65279,65279>>, <<65287,65287>>,
       <<65294,65294>>, <<65306,65306>>, <<65342,65342>>, <<65344,65344>>,
       <<65392,65392>>, <<65438,65439>>, <<65507,65507>>, <<65529,65531>>,
       <<66045,66045>>, <<66272,66272>>, <<66422,66426>>, <<67456,67461>>,
       <<67463,67504>>, <<67506,67514>>, <<68097,68099>>, <<68101,68102>>,
       <<68108,68111>>, <<68152,68154>>, <<68159,68159>>, <<68325,68326>>,
       <<68900,68903>>, <<69291,69292>>, <<69446,69456>>, <<69506,69509>>,
       <<69633,69633>>, <<69688,69702>>, <<69744,69744>>, <<69747,69748>>,
       <<69759,69761>>, <<69811,69814>>, <<69817,69818>>, <<69821,69821>>,
       <<69826,69826>>, <<69837,69837>>, <<69888,69890>>, <<69927,69931>>,
       <<69933,69940>>, <<70003,70003>>, <<70016,70017>>, <<70070,70078>>,
       <<70089,70092>>, <<70095,70095>>, <<70191,70193>>, <<70196,70196>>,
       <<70198,70199>>, <<70206,70206>>, <<70367,70367>>, <<70371,70378>>,
       <<70400,70401>>, <<70459,70460>>, <<70464,70464>>, <<70502,70508>>,
       <<70512,70516>>, <<70712,70719>>, <<70722,70724>>, <<70726,70726>>,
       <<70750,70750>>, <<70835,70840>>, <<70842,70842>>, <<70847,70848>>,
       <<70850,70851>>, <<71090,71093>>, <<71100,71101>>, <<71103,71104>>,
       <<71132,71133>>, <<71219,71226>>, <<71229,71229>>, <<71231,71232>>,
       <<71339,71339>>, <<71341,71341>>, <<71344,71349>>, <<71351,71351>>,
       <<71453,71455>>, <<71458,71461>>, <<71463,71467>>, <<71727,71735>>,
       <<71737,71738>>, <<71995,71996>>, <<71998,71998>>, <<72003,72003>>,
       <<72148,72151>>, <<72154,72155>>, <<72160,72160>>, <<72193,72202>>,
       <<72243,72248>>, <<72251,72254>>, <<72263,72263>>, <<72273,72278>>,
       <<72281,72283>>, <<72330,72342>>, <<72344,72345>>, <<72752,72758>>,
       <<72760,72765>>, <<72767,72767>>, <<72850,72871>>, <<72874,72880>>,
       <<72882,72883>>, <<72885,72886>>, <<73009,73014>>, <<73018,73018>>,
       <<73020,73021>>, <<73023,73029>>, <<73031,73031>>, <<73104,73105>>,
       <<73109,73109>>, <<73111,73111>>, <<73459,73460>>, <<78896,78904>>,
       <<92912,92916>>, <<92976,92982>>, <<92992,92995>>, <<94031,94031>>,
       <<94095,94111>>, <<94176,94177>>, <<94179,94180>>, <<110576,110579>>,
       <<110581,110587>>, <<110589,110590>>, <<113821,113822>>,
       <<113824,113827>>, <<118528,118573>>, <<118576,118598>>,
       <<119143,119145>>, <<119155,119170>>, <<119173,119179>>,
       <<119210,119213>>, <<119362,119364>>, <<121344,121398>>,
       <<121403,121452>>, <<121461,121461>>, <<121476,121476>>,
       <<121499,121503>>, <<121505,121519>>, <<122880,122886>>,
       <<122888,122904>>, <<122907,122913>>, <<122915,122916>>,
       <<122918,122922>>, <<123184,123197>>, <<123566,123566>>,
       <<123628,123631>>, <<125136,125142>>, <<125252,125259>>,
       <<127995,127999>>, <<917505,917505>>, <<917536,917631>>,
       <<917760,917999>> >>

\* The decimal digits (Unicode category Nd), as <<lo, hi>>: each range is a
\* row of the digits zero to nine of one or more scripts, so the digit c
\* of a range has the value (c - lo) % 10.
DecimalRanges ==
    << <<48,57>>, <<1632,1641>>, <<1776,1785>>, <<1984,1993>>, <<2406,2415>>,
       <<2534,2543>>, <<2662,2671>>, <<2790,2799>>, <<2918,2927>>,
       <<3046,3055>>, <<3174,3183>>, <<3302,3311>>, <<3430,3439>>,
       <<3558,3567>>, <<3664,3673>>, <<3792,3801>>, <<3872,3881>>,
       <<4160,4169>>, <<4240,4249>>, <<6112,6121>>, <<6160,6169>>,
       <<6470,6479>>, <<6608,6617>>, <<6784,6793>>, <<6800,6809>>,
       <<6992,7001>>, <<7088,7097>>, <<7232,7241>>, <<7248,7257>>,
       <<42528,42537>>, <<43216,43225>>, <<43264,43273>>, <<43472,43481>>,
       <<43504,43513>>, <<43600,43609>>, <<44016,44025>>, <<65296,65305>>,
       <<66720,66729>>, <<68912,68921>>, <<69734,69743>>, <<69872,69881>>,
       <<69942,69951>>, <<70096,70105>>, <<70384,70393>>, <<70736,70745>>,
       <<70864,70873>>, <<71248,71257>>, <<71360,71369>>, <<71472,71481>>,
       <<71904,71913>>, <<72016,72025>>, <<72784,72793>>, <<73040,73049>>,
       <<73120,73129>>, <<92768,92777>>, <<92864,92873>>, <<93008,93017>>,
       <<120782,120831>>, <<123200,123209>>, <<123632,123641>>,
       <<125264,125273>>, <<130032,130041>> >>

\* The characters that are digits for str.isdigit() and no decimal digits
\* (superscripts, circled digits and the like), as <<lo, hi>>.
OtherDigitRanges ==
    << <<178,179>>, <<185,185>>, <<4969,4977>>, <<6618,6618>>, <<8304,8304>>,
       <<8308,8313>>, <<8320,8329>>, <<9312,9320>>, <<9332,9340>>,
       <<9352,9360>>, <<9450,9450>>, <<9461,9469>>, <<9471,9471>>,
       <<10102,10110>>, <<10112,10120>>, <<10122,10130>>, <<68160,68163>>,
       <<69216,69224>>, <<69714,69722>>, <<127232,127242>> >>

\* The characters whose lowercase is more than one character: LATIN CAPITAL
\* LETTER I WITH DOT ABOVE becomes 'i' and COMBINING DOT ABOVE.
LowerSpecial == {<<304, <<105, 775>>>>}

\* The character is one of the range <<lo, hi, step, d>>.
InLowerRange(c, r) == r[1] <= c /\ c <= r[2] /\ (c - r[1]) % r[3] = 0

\* str.lower() of the one character c: a str of one character, or of more.
LowerChar(c) ==
    IF c < 128 THEN <<IF 65 <= c /\ c <= 90 THEN c + 32 ELSE c>>
    ELSE IF \E m \in LowerSpecial : m[1] = c
         THEN (CHOOSE m \in LowerSpecial : m[1] = c)[2]
    ELSE IF \E i \in 1..Len(LowerRanges) : InLowerRange(c, LowerRanges[i])
         THEN <<c + LowerRanges[CHOOSE i \in 1..Len(LowerRanges) :
                                    InLowerRange(c, LowerRanges[i])][4]>>
    ELSE <<c>>

IsCased(c) == InRanges(c, CasedRanges)

IsCaseIgnorable(c) == InRanges(c, CaseIgnorableRanges)

\* The capital sigma s[i] ends a word (Final_Sigma): a cased character
\* stands before it and none after it, case-ignorable characters skipped.
FinalSigma(s, i) ==
    LET before == {j \in 1..(i - 1) : ~IsCaseIgnorable(s[j])}
        after == {j \in (i + 1)..Len(s) : ~IsCaseIgnorable(s[j])}
    IN  /\ before # {}
        /\ IsCased(s[Greatest(before)])
        /\ after = {} \/ ~IsCased(s[Least(after)])

RECURSIVE LowerFrom(_, _)
\* str.lower() of s from its character i on.
LowerFrom(s, i) ==
    IF i > Len(s) THEN <<>>
    ELSE (IF s[i] = CapitalSigma
          THEN <<IF FinalSigma(s, i) THEN FinalSmallSigma ELSE SmallSigma>>
          ELSE LowerChar(s[i])) \o LowerFrom(s, i + 1)

\* str.lower()
Lower(s) == LowerFrom(s, 1)

\* str.endswith(suffix)
EndsWith(s, suffix) ==
    /\ Len(s) >= Len(suffix)
    /\ SubSeq(s, Len(s) - Len(suffix) + 1, Len(s)) = suffix

\* The character is a decimal digit (Unicode category Nd).
IsDecimalChar(c) == InRanges(c, DecimalRanges)

\* The value of a decimal digit.
DigitValue(c) ==
    LET r == DecimalRanges[CHOOSE i \in 1..Len(DecimalRanges) :
                               /\ DecimalRanges[i][1] <= c
                               /\ c <= DecimalRanges[i][2]]
    IN  (c - r[1]) % 10

\* str.isdigit(): non-empty, and every character is a decimal digit or
\* another character with the Unicode digit property.
IsDigit(s) ==
    /\ Len(s) > 0
    /\ \A i \in 1..Len(s) :
           IsDecimalChar(s[i]) \/ InRanges(s[i], OtherDigitRanges)

(***************************************************************************)
(* int: a Python int has no width, so it is held as its sign and the       *)
(* decimal digits of its magnitude, most significant first, none for zero. *)
(***************************************************************************)
RECURSIVE NatDigits(_)
NatDigits(n) == IF n = 0 THEN <<>> ELSE Append(NatDigits(n \div 10), n % 10)

\* The int with the value of the natural number n.
IntOf(n) == [neg |-> FALSE, mag |-> NatDigits(n)]

RECURSIVE DigitsNat(_)
DigitsNat(mag) ==
    IF mag = <<>> THEN 0
    ELSE 10 * DigitsNat(SubSeq(mag, 1, Len(mag) - 1)) + mag[Len(mag)]

\* x <= y for magnitudes: the shorter one, or the first digit that differs.
MagLE(x, y) ==
    \/ Len(x) < Len(y)
    \/ /\ Len(x) = Len(y)
       /\ \/ x = y
          \/ \E i \in 1..Len(x) :
                 /\ \A j \in 1..(i - 1) : x[j] = y[j]
                 /\ x[i] < y[i]

\* a <= b for ints.
IntLE(a, b) ==
    IF a.neg # b.neg THEN a.neg
    ELSE IF a.neg THEN MagLE(b.mag, a.mag)
    ELSE MagLE(a.mag, b.mag)

\* str(v) for an int.
IntStr(v) ==
    (IF v.neg THEN <<Hyphen>> ELSE <<>>) \o
    (IF v.mag = <<>> THEN <<Zero>> ELSE [i \in 1..Len(v.mag) |-> Zero + v.mag[i]])

\* The characters int() takes for blanks at both ends of its argument: the
\* ASCII ones and, beyond ASCII, those of str.isspace().
IntSpaces ==
    {9, 10, 11, 12, 13, 32, 133, 160, 5760} \cup (8192..8202) \cup
    {8232, 8233, 8239, 8287, 12288}

\* sys.int_max_str_digits, as the interpreter starts with it.
MaxStrDigits == 4300

\* The argument of int() without the blanks at its ends.
IntStripped(s) ==
    LET solid == {i \in 1..Len(s) : s[i] \notin IntSpaces}
    IN  IF solid = {} THEN <<>> ELSE SubSeq(s, Least(solid), Greatest(solid))

\* What follows the sign, if there is one.
IntDigits(s) ==
    LET t == IntStripped(s)
    IN  IF t # <<>> /\ t[1] \in {Plus, Hyphen} THEN Tail(t) ELSE t

\* int(s) raises ValueError: s is not an optional sign and decimal digits of
\* any script, single underscores between digits allowed, with blanks around
\* it; or it has more than MaxStrDigits digits.
IntRaises(s) ==
    LET d == IntDigits(s)
    IN  \/ d = <<>>
        \/ \E i \in 1..Len(d) : ~IsDecimalChar(d[i]) /\ d[i] # Underscore
        \/ d[1] = Underscore
        \/ d[Len(d)] = Underscore
        \/ \E i \in 1..(Len(d) - 1) : d[i] = Underscore /\ d[i + 1] = Underscore
        \/ Cardinality({i \in 1..Len(d) : d[i] # Underscore}) > MaxStrDigits

\* int(s) for a string that int() takes.
IntValue(s) ==
    LET d == IntDigits(s)
        digits == SelectSeq(d, LAMBDA c : c # Underscore)
        values == [i \in 1..Len(digits) |-> DigitValue(digits[i])]
        nonzero == {i \in 1..Len(values) : values[i] # 0}
        mag == IF nonzero = {} THEN <<>>
               ELSE SubSeq(values, Least(nonzero), Len(values))
    IN  [neg |-> mag # <<>> /\ IntStripped(s)[1] = Hyphen, mag |-> mag]

\* os.path.join(a, b): b alone when it is absolute; else the separator goes
\* between a and b unless a is empty or ends with one.
PathJoin(a, b) ==
    IF a = <<>> \/ (b # <<>> /\ b[1] = Slash) THEN b
    ELSE IF a[Len(a)] = Slash THEN a \o b
    ELSE a \o <<Slash>> \o b

(***************************************************************************)
(* Names of the entries directly under the gallery root.                   *)
(***************************************************************************)
NameGalleryJson == Str(<<"g","a","l","l","e","r","y",".","j","s","o","n">>)
NameImagesData == Str(<<"i","m","a","g","e","s","_","d","a","t","a",".",
                        "j","s","o","n">>)
NameIndexTemplate == Str(<<"i","n","d","e","x","_","t","e","m","p","l","a",
                           "t","e",".","h","t","m","l">>)
NamePublic == Str(<<"p","u","b","l","i","c">>)
NameImages == Str(<<"i","m","a","g","e","s">>)
NamePhotos == Str(<<"p","h","o","t","o","s">>)
NameThumbnails == Str(<<"t","h","u","m","b","n","a","i","l","s">>)

\* a.JPG; a name that starts with a letter beyond ASCII, E-acute.MP4; c.txt;
\* and .h.jpg, which starts with a dot.
NameA == Str(<<"a",".","J","P","G">>)
NameB == <<CapitalEAcute>> \o Str(<<".","M","P","4">>)
NameC == Str(<<"c",".","t","x","t">>)
NameHidden == Str(<<".","h",".","j","p","g">>)

UserNames == {NameA, NameB, NameC, NameHidden}

\* The gallery roots given with --path: a plain name, the same with a
\* trailing separator, a name with a character class of glob that does not
\* match the name, and a name with a range of glob that does.
RootPlain == Str(<<"g","a","l">>)
RootSlash == Str(<<"g","a","l","/">>)
RootClass == Str(<<"t","r","i","p","[","2","0","1","9","]">>)
RootRange == Str(<<"*","[","+","-","a","]">>)

Roots == {RootPlain, RootSlash, RootClass, RootRange}

(***************************************************************************)
(* File contents.                                                          *)
(***************************************************************************)
UserContent(n) == [k |-> "user", n |-> n]
OldContent(n) == [k |-> "old", n |-> n]
TemplateContent(n) == [k |-> "template", n |-> n]
\* A file that has been created or truncated and not yet written.
EmptyContent(n) == [k |-> "empty", n |-> n]

(***************************************************************************)
(* The bundled templates (package data, not part of the script).           *)
(***************************************************************************)
\* Files of templates/public, by path relative to it.
PublicTemplateFiles == {"css/main.css", "js/main.js"}
\* Directories of templates/public that hold no file.
PublicTemplateDirs == {"images/photos"}
\* Files of templates/html, all at its top level.
HtmlTemplateFiles == {NameIndexTemplate}

(***************************************************************************)
(* File-system operations.                                                 *)
(***************************************************************************)
\* os.path.exists(os.path.join(gallery_root, name))
TopExists(f, name) ==
    /\ f.root
    /\ \/ name \in DOMAIN f.top
       \/ name = NamePublic /\ f.pubdir

\* A check that lets every path through.
check_if_gallery_creation_possible_Always(f) == TRUE

\* check_if_gallery_creation_possible
check_if_gallery_creation_possible(f) ==
    IF ~f.root THEN FALSE ELSE TRUE

\* The list without its last entry.
paths_to_check_WithoutPublic == <<NameGalleryJson, NameImagesData, NameIndexTemplate>>

\* The list with the config file alone.
paths_to_check_ConfigOnly == <<NameGalleryJson>>

paths_to_check == <<NameGalleryJson, NameImagesData, NameIndexTemplate, NamePublic>>

RECURSIVE AnyPathExists(_, _, _)
\* The loop of check_if_gallery_already_exists from index i on.
AnyPathExists(f, paths, i) ==
    IF i > Len(paths) THEN FALSE
    ELSE IF TopExists(f, paths[i]) THEN TRUE
    ELSE AnyPathExists(f, paths, i + 1)

\* A marker check that looks for the config file alone.
check_if_gallery_already_exists_ConfigOnly(f) ==
    AnyPathExists(f, paths_to_check_ConfigOnly, 1)

\* check_if_gallery_already_exists
check_if_gallery_already_exists(f) == AnyPathExists(f, paths_to_check, 1)

\* The test of line 156 read the wrong way round.
ExitsWithoutForce_Inverted(exists, forced) == exists /\ forced

\* main, lines 155-159: the run stops when a gallery exists and --force is
\* not given.
ExitsWithoutForce(exists, forced) == exists /\ ~forced

\* The files of one destination tree: those under root/public for the public
\* template, those of the root for the HTML template.
TreeFiles(f, tree) == IF tree = "public" THEN f.pub ELSE f.top

WithTreeFiles(f, tree, files) ==
    IF tree = "public" THEN [f EXCEPT !.pub = files] ELSE [f EXCEPT !.top = files]

\* A directory without the entry n.
Remove(files, n) == [m \in (DOMAIN files) \ {n} |-> files[m]]

\* A directory with the entry n holding content.
Put(files, n, content) ==
    [m \in (DOMAIN files) \cup {n} |-> IF m = n THEN content ELSE files[m]]

\* The entries without the directories that hold no file.
CopyTreeEntries_FilesOnly(tree) ==
    IF tree = "public" THEN PublicTemplateFiles ELSE HtmlTemplateFiles

\* distutils copy_tree: os.listdir(src), through the recursion into the
\* directories of the template.
CopyTreeEntries(tree) ==
    IF tree = "public" THEN PublicTemplateFiles \cup PublicTemplateDirs
    ELSE HtmlTemplateFiles

\* distutils copy_tree: mkpath(dst), which makes the missing ancestors and
\* accepts a directory that is there.
MakeTreeRoot(f, tree) ==
    IF tree = "public" THEN [f EXCEPT !.root = TRUE, !.pubdir = TRUE]
    ELSE [f EXCEPT !.root = TRUE]

\* distutils copy_tree on a directory of the template: mkpath of it under
\* the destination.
MakeDir(f, d) == [f EXCEPT !.photosdir = @ \/ d = "images/photos"]

\* distutils _copy_file_contents: os.path.exists(dst)
FileExists(f, tree, n) == n \in DOMAIN TreeFiles(f, tree)

\* distutils _copy_file_contents: os.unlink(dst)
Unlink(f, tree, n) == WithTreeFiles(f, tree, Remove(TreeFiles(f, tree), n))

\* distutils _copy_file_contents: open(dst, 'wb') creates the file, or
\* truncates the one that is there.
OpenForCopy(f, tree, n) ==
    WithTreeFiles(f, tree, Put(TreeFiles(f, tree), n, EmptyContent(n)))

\* distutils _copy_file_contents: the bytes of the template file, written
\* into the open file.
WriteCopy(f, tree, n) ==
    WithTreeFiles(f, tree, Put(TreeFiles(f, tree), n, TemplateContent(n)))

\* glob.has_magic
HasMagic(path) ==
    \E i \in 1..Len(path) : path[i] \in {Star, Question, LBracket}

\* fnmatch.translate at a '[': the index of the bracket that closes the
\* character class opened at pat[1], 0 when none does.  A '!' and a ']'
\* right after the opening bracket belong to the class.
ClassEnd(pat) ==
    LET afterBang == IF Len(pat) >= 2 /\ pat[2] = Bang THEN 3 ELSE 2
        from == IF Len(pat) >= afterBang /\ pat[afterBang] = RBracket
                THEN afterBang + 1 ELSE afterBang
        closing == {j \in from..Len(pat) : pat[j] = RBracket}
    IN  IF closing = {} THEN 0 ELSE Least(closing)

\* The hyphen that makes a range in a character class, as against the
\* character '-'.
RangeHyphen == -1

RECURSIVE SplitChunks(_, _, _)
\* fnmatch.translate, the loop over the hyphens of a class: the chunk from
\* index i to the first hyphen at or after index k, and the chunks of what
\* follows it; the search goes on two characters after the hyphen.
SplitChunks(stuff, i, k) ==
    LET found == {x \in k..Len(stuff) : stuff[x] = Hyphen}
    IN  IF found = {} THEN <<SubSeq(stuff, i, Len(stuff))>>
        ELSE <<SubSeq(stuff, i, Least(found) - 1)>> \o
             SplitChunks(stuff, Least(found) + 1, Least(found) + 3)

\* fnmatch.translate: the chunks of a class that holds a hyphen.  The first
\* character of the class (the first two after '!') makes no range, and a
\* hyphen that ends the class goes to the last chunk.
Chunks(stuff) ==
    LET split == SplitChunks(stuff, 1, IF stuff[1] = Bang THEN 3 ELSE 2)
        n == Len(split)
    IN  IF split[n] # <<>> THEN split
        ELSE [j \in 1..(n - 1) |->
                IF j = n - 1 THEN Append(split[j], Hyphen) ELSE split[j]]

RECURSIVE RemoveEmptyRanges(_, _)
\* fnmatch.translate, "Remove empty ranges": from the last chunk k down to
\* the second, a range whose first end is greater than its second goes,
\* with both ends, and its two chunks become one.
RemoveEmptyRanges(chunks, k) ==
    IF k < 2 THEN chunks
    ELSE LET a == chunks[k - 1]
             b == chunks[k]
         IN  IF a[Len(a)] > b[1]
             THEN RemoveEmptyRanges(
                      SubSeq(chunks, 1, k - 2) \o
                      <<SubSeq(a, 1, Len(a) - 1) \o Tail(b)>> \o
                      SubSeq(chunks, k + 1, Len(chunks)),
                      k - 1)
             ELSE RemoveEmptyRanges(chunks, k - 1)

RECURSIVE JoinChunks(_)
\* '-'.join(chunks), the hyphens within the chunks being escaped.
JoinChunks(chunks) ==
    IF Len(chunks) = 1 THEN chunks[1]
    ELSE chunks[1] \o <<RangeHyphen>> \o JoinChunks(Tail(chunks))

\* fnmatch.translate: the class between its brackets as it goes into the
\* regular expression.
ClassItems(stuff) ==
    IF \A i \in 1..Len(stuff) : stuff[i] # Hyphen THEN stuff
    ELSE JoinChunks(RemoveEmptyRanges(Chunks(stuff), Len(Chunks(stuff))))

RECURSIVE SetHas(_, _)
\* The set of a regular expression, read item by item, holds c: an item
\* followed by a range hyphen is the range up to the item after it; a range
\* hyphen that starts the set is the character '-'.
SetHas(items, c) ==
    IF items = <<>> THEN FALSE
    ELSE LET first == IF items[1] = RangeHyphen THEN Hyphen ELSE items[1]
         IN  IF Len(items) >= 3 /\ items[2] = RangeHyphen
             THEN \/ first <= c /\ c <= items[3]
                  \/ SetHas(SubSeq(items, 4, Len(items)), c)
             ELSE c = first \/ SetHas(Tail(items), c)

\* The character class pat[1..e] matches c: no character when it is empty,
\* any character when it is '!' alone, the characters outside the set after
\* a '!', else those of the set.
ClassMatches(pat, e, c) ==
    LET items == ClassItems(SubSeq(pat, 2, e - 1))
    IN  IF items = <<>> THEN FALSE
        ELSE IF items = <<Bang>> THEN TRUE
        ELSE IF items[1] = Bang THEN ~SetHas(Tail(items), c)
        ELSE SetHas(items, c)

RECURSIVE FnMatch(_, _)
\* fnmatch.fnmatch(name, pat), which glob applies to the names of a
\* directory.
FnMatch(name, pat) ==
    IF pat = <<>> THEN name = <<>>
    ELSE IF pat[1] = Star
         THEN \/ FnMatch(name, Tail(pat))
              \/ name # <<>> /\ FnMatch(Tail(name), pat)
    ELSE IF name = <<>> THEN FALSE
    ELSE IF pat[1] = Question THEN FnMatch(Tail(name), Tail(pat))
    ELSE IF pat[1] = LBracket /\ ClassEnd(pat) # 0
         THEN /\ ClassMatches(pat, ClassEnd(pat), name[1])
              /\ FnMatch(Tail(name), SubSeq(pat, ClassEnd(pat) + 1, Len(pat)))
    ELSE name[1] = pat[1] /\ FnMatch(Tail(name), Tail(pat))

RECURSIVE Components(_)
\* The components of a path: what stands between its separators.
Components(path) ==
    LET seps == {i \in 1..Len(path) : path[i] = Slash}
    IN  IF seps = {} THEN (IF path = <<>> THEN <<>> ELSE <<path>>)
        ELSE (IF Least(seps) = 1 THEN <<>>
              ELSE <<SubSeq(path, 1, Least(seps) - 1)>>) \o
             Components(SubSeq(path, Least(seps) + 1, Len(path)))

\* The directories glob lists for the pattern os.path.join(root, '*'): the
\* root itself when no component of it holds a magic character; else glob
\* reads each such component as a pattern for the names of the directory
\* above it.  Each directory on the way to the root is the only entry of
\* the one above it, so the root is listed when each such component matches
\* itself, and nothing is listed otherwise.
GlobDirs(root) ==
    IF \A i \in 1..Len(Components(root)) :
           HasMagic(Components(root)[i]) =>
               FnMatch(Components(root)[i], Components(root)[i])
    THEN {root} ELSE {}

\* glob.glob(os.path.join(gallery_root, '*')): the entries of the listed
\* directories whose name does not start with a dot.
GlobRoot(f, root) ==
    IF GlobDirs(root) = {} THEN {}
    ELSE {n \in (DOMAIN f.top) \cup (IF f.pubdir THEN {NamePublic} ELSE {}) :
             n[1] # Dot}

MediaSuffixes == {Str(<<".","j","p","g">>), Str(<<".","j","p","e","g">>),
                  Str(<<".","g","i","f">>), Str(<<".","m","p","4">>)}

\* The test of line 93 on os.path.basename(path).lower().
IsMediaName(n) ==
    LET basename_lower == Lower(n)
    IN  \E suffix \in MediaSuffixes : EndsWith(basename_lower, suffix)

\* shutil.move(root/n, root/public/images/photos/n) of an existing file.
MoveToPhotos(f, n) ==
    [f EXCEPT !.top = [m \in (DOMAIN f.top) \ {n} |-> f.top[m]],
              !.photos = [m \in (DOMAIN f.photos) \cup {n} |->
                            IF m = n THEN f.top[n] ELSE f.photos[m]]]

\* The text of a file as a sequence of pieces: piece i is what is left of a
\* document written at the start of the file, from the end of piece i - 1 up
\* to its character upto.  A file written once holds one whole document.
TextContent(segs) == [k |-> "text", segs |-> segs]

\* An open that keeps the text of a file that is there.
OpenForWrite_NoTruncate(f, n) ==
    IF n \in DOMAIN f.top THEN f
    ELSE [f EXCEPT !.top = Put(f.top, n, TextContent(<<>>))]

\* open(path, 'w'): creates the file, or truncates the one that is there.
OpenForWrite(f, n) == [f EXCEPT !.top = Put(f.top, n, TextContent(<<>>))]

\* A write at the end of the file.
WriteAtStart_Append(content, doc, length) ==
    TextContent(Append(content.segs,
                       [doc |-> doc,
                        upto |-> length +
                                 (IF content.segs = <<>> THEN 0
                                  ELSE content.segs[Len(content.segs)].upto)]))

\* The write of a document of the given length through a file object opened
\* with 'w': it goes to the start of the file and leaves what the file holds
\* beyond its length.
WriteAtStart(content, doc, length) ==
    LET Beyond(piece) == piece.upto > length
    IN  TextContent(<<[doc |-> doc, upto |-> length]>> \o
                    SelectSeq(content.segs, Beyond))

(***************************************************************************)
(* The gallery_config dict and its JSON form.                              *)
(***************************************************************************)
PyStr(s) == [t |-> "str", v |-> s]
\* The value stored as a str, without the conversion.
PyInt_Unconverted(i) == [t |-> "str", v |-> IntStr(i)]

\* int(thumbnail_size), line 129.
PyInt(i) == [t |-> "int", v |-> i]

DictHas(d, key) == \E i \in 1..Len(d) : d[i][1] = key

DictGet(d, key) == d[CHOOSE i \in 1..Len(d) : d[i][1] = key][2]

\* d[key] = value on a dict (insertion-ordered).
DictSet(d, key, value) ==
    IF DictHas(d, key)
    THEN [i \in 1..Len(d) |-> IF d[i][1] = key THEN <<key, value>> ELSE d[i]]
    ELSE Append(d, <<key, value>>)

\* json.dump of a dict of str and int values: one member per key, in
\* insertion order, a str as a JSON string and an int as a JSON number.
JsonDump(d) ==
    [k |-> "json",
     members |-> [i \in 1..Len(d) |->
                    [key |-> d[i][1],
                     value |-> IF d[i][2].t = "str"
                               THEN [j |-> "string", v |-> d[i][2].v]
                               ELSE [j |-> "number", v |-> d[i][2].v]]]]

\* The number of characters json.dump writes for the character c of a str
\* (ensure_ascii): two for the quote, the backslash and the control
\* characters with a short escape, one for the other printable ASCII
\* characters, twelve for a character beyond U+FFFF (two \uXXXX) and six
\* for every other one.
JsonCharLength(c) ==
    IF c \in {34, 92, 8, 9, 10, 12, 13} THEN 2
    ELSE IF 32 <= c /\ c <= 126 THEN 1
    ELSE IF c > 65535 THEN 12
    ELSE 6

RECURSIVE JsonStringLength(_)
\* The length of a str as json.dump writes it, between quotes.
JsonStringLength(s) ==
    IF s = <<>> THEN 2 ELSE JsonCharLength(Head(s)) + JsonStringLength(Tail(s))

\* The length of a value as json.dump writes it: a str as a JSON string, an
\* int as str() writes it.
JsonValueLength(value) ==
    IF value.j = "string" THEN JsonStringLength(value.v)
    ELSE Len(IntStr(value.v))

RECURSIVE JsonMembersLength(_, _)
\* The lengths of the member lines from member i on, with indent=4 and
\* separators=(',', ': '): four blanks, the key between quotes (the keys are
\* plain identifiers), ': ', the value.
JsonMembersLength(members, i) ==
    IF i > Len(members) THEN 0
    ELSE 4 + (Len(members[i].key) + 2) + 2 + JsonValueLength(members[i].value)
           + JsonMembersLength(members, i + 1)

\* The length of the text json.dump writes for a dict with members: '{' and
\* a newline, the member lines joined by ',' and a newline, a newline and
\* '}'.
JsonLength(doc) ==
    2 + JsonMembersLength(doc.members, 1) + 2 * (Len(doc.members) - 1) + 2

DEFAULT_TITLE == Str(<<"M","y"," ","G","a","l","l","e","r","y">>)
DEFAULT_DESCRIPTION ==
    Str(<<"D","e","f","a","u","l","t"," ","d","e","s","c","r","i","p","t",
          "i","o","n"," ","o","f"," ","m","y"," ","g","a","l","l","e","r","y">>)
DEFAULT_THUMBNAIL_HEIGHT == Str(<<"3","2","0">>)

\* gallery_config as initialised at lines 107-112.
InitialConfig(root) ==
    << <<"images_data_file", PyStr(PathJoin(root, NameImagesData))>>,
       <<"public_path", PyStr(PathJoin(root, NamePublic))>>,
       <<"images_path",
         PyStr(PathJoin(PathJoin(PathJoin(root, NamePublic), NameImages),
                        NamePhotos))>>,
       <<"thumbnails_path",
         PyStr(PathJoin(PathJoin(PathJoin(root, NamePublic), NameImages),
                        NameThumbnails))>> >>

\* input(...) or default
OrDefault(answer, default) == IF answer = <<>> THEN default ELSE answer

(***************************************************************************)
(* Inputs.                                                                 *)
(***************************************************************************)
\* The answers to the title prompt: none, and 'Caf' with an e-acute, which
\* json.dump escapes.
TitleEntered == Str(<<"C","a","f">>) \o <<233>>

TitleAnswers == {<<>>, TitleEntered}
\* The answers to the description prompt: none, and a"b, whose quote
\* json.dump escapes.
DescriptionEntered == Str(<<"a","\"","b">>)

DescriptionAnswers == {<<>>, DescriptionEntered}
\* The answers to the thumbnail prompt: those of the spec's example, 320 in
\* Arabic-Indic digits, and a superscript two.
ThumbnailAnswers ==
    { <<>>,
      Str(<<"3","2","0">>),
      Str(<<"3","1">>),
      Str(<<"a","b","c">>),
      Str(<<"1","0","2","4">>),
      Str(<<"1","0","2","5">>),
      <<ArabicIndicZero + 3, ArabicIndicZero + 2, ArabicIndicZero>>,
      <<SuperscriptTwo>> }

NoInput == [title |-> <<>>, description |-> <<>>, thumbnail |-> <<>>]


\* The ways a blocked input() ends without an answer.
InputFailures == {"EOFError", "KeyboardInterrupt"}

\* Every option and answer of the model, for the plain root.
AllInputs ==
    [root |-> RootPlain, force |-> BOOLEAN, title |-> TitleAnswers,
     description |-> DescriptionAnswers, thumbnail |-> ThumbnailAnswers,
     failure |-> InputFailures]

\* The options and answers of the overlapping runs: no --force, any answer.
OverlapInputs == [AllInputs EXCEPT !.force = {FALSE}]

(***************************************************************************)
(* Initial file systems.                                                   *)
(***************************************************************************)
NoFiles == [n \in {} |-> 0]

\* The gallery.json of an earlier gallery: the record with every default, of
\* a run that was given the plain root.
EarlierGalleryJson ==
    LET doc == JsonDump(
                   DictSet(DictSet(DictSet(InitialConfig(RootPlain),
                                           "title", PyStr(DEFAULT_TITLE)),
                                   "description", PyStr(DEFAULT_DESCRIPTION)),
                           "thumbnail_height",
                           PyInt(IntValue(DEFAULT_THUMBNAIL_HEIGHT))))
    IN  TextContent(<<[doc |-> doc, upto |-> JsonLength(doc)]>>)

AbsentRoot ==
    [root |-> FALSE, top |-> NoFiles, pubdir |-> FALSE, photosdir |-> FALSE,
     pub |-> NoFiles, photos |-> NoFiles]

\* The states root/public can be in before a run: absent, a directory of the
\* user's own, or the public directory of an earlier gallery, whose photos
\* directory may already hold a file named like one at the root.
PublicStates ==
    { [pubdir |-> FALSE, photosdir |-> FALSE, pub |-> NoFiles, photos |-> NoFiles],
      [pubdir |-> TRUE, photosdir |-> FALSE,
       pub |-> [n \in {"notes.txt"} |-> UserContent(n)], photos |-> NoFiles],
      [pubdir |-> TRUE, photosdir |-> TRUE,
       pub |-> [n \in {"css/main.css"} |-> OldContent(n)],
       photos |-> [n \in {NameA} |-> OldContent(n)]] }

FileMarkers == {NameGalleryJson, NameImagesData, NameIndexTemplate}

ExistingRoots ==
    { [root |-> TRUE,
       top |-> [n \in users \cup markers |->
                  IF n \in users THEN UserContent(n)
                  ELSE IF n = NameGalleryJson THEN EarlierGalleryJson
                  ELSE OldContent(n)],
       pubdir |-> p.pubdir, photosdir |-> p.photosdir,
       pub |-> p.pub, photos |-> p.photos] :
        users \in SUBSET UserNames, markers \in SUBSET FileMarkers,
        p \in PublicStates }

\* The roots of the runs in sequence: a folder of photos, or an empty one,
\* without or with a public directory and the gallery.json of an earlier
\* gallery.
SequenceRoots ==
    { f \in ExistingRoots :
        /\ (DOMAIN f.top) \cap UserNames \in {{}, {NameA, NameC}, UserNames}
        /\ (DOMAIN f.top) \cap FileMarkers \in {{}, {NameGalleryJson}} }

\* The roots of the overlapping runs: a folder of photos that holds no gallery.
FreshRoots ==
    { f \in ExistingRoots :
        /\ (DOMAIN f.top) \cap UserNames \in {{NameA, NameC}}
        /\ (DOMAIN f.top) \cap FileMarkers = {}
        /\ ~f.pubdir }

Outcomes == {"none", "no_root", "noop", "written", "crashed", "killed"}

TypeOK ==
    /\ pc \in [Procs -> {"off", "idle", "check_possible", "check_exists",
                         "copy_public", "glob", "move_media", "copy_html",
                         "ask_title", "ask_description", "ask_thumbnail",
                         "open_json", "dump_json", "done"}]
    /\ force \in [Procs -> BOOLEAN]
    /\ \A p \in Procs :
           /\ io[p].phase \in {"start", "next", "exists", "unlink", "open",
                               "write", "utime", "chmod"}
           /\ io[p].live \in BOOLEAN
           /\ waiting[p] \in BOOLEAN
           /\ waiting[p] =>
                  pc[p] \in {"ask_title", "ask_description", "ask_thumbnail"}
           /\ answered[p] \subseteq asked[p]
           /\ asked[p] \subseteq {"title", "description", "thumbnail"}
    /\ outcome \in [Procs -> Outcomes]
    /\ status \in [Procs -> {-1, 0, 1, 130}]
    /\ runsLeft \in Nat
    /\ lastWriter \in Procs \cup {"none"}

\* No copy under way.
NoCopy == [phase |-> "start", file |-> "", live |-> FALSE]

InitProcess ==
    /\ force = [p \in Procs |-> FALSE]
    /\ cfg = [p \in Procs |-> <<>>]
    /\ pending = [p \in Procs |-> {}]
    /\ todo = [p \in Procs |-> {}]
    /\ io = [p \in Procs |-> NoCopy]
    /\ fs0 = [p \in Procs |-> fs]
    /\ fsAtCheck = [p \in Procs |-> fs]
    /\ existsResult = [p \in Procs |-> FALSE]
    /\ asked = [p \in Procs |-> {}]
    /\ answered = [p \in Procs |-> {}]
    /\ waiting = [p \in Procs |-> FALSE]
    /\ inp = [p \in Procs |-> NoInput]
    /\ wrote = [p \in Procs |-> FALSE]
    /\ outcome = [p \in Procs |-> "none"]
    /\ status = [p \in Procs |-> -1]
    /\ hist = <<>>
    /\ lastWriter = "none"

\* Invocations one after the other.
Init ==
    /\ fs \in SequenceRoots
    /\ pc = [p \in Procs |-> IF p = "p1" THEN "idle" ELSE "off"]
    /\ runsLeft = MaxRuns
    /\ given = AllInputs
    /\ InitProcess

\* One invocation, on any initial file system.
InitOne ==
    /\ fs \in {AbsentRoot} \cup ExistingRoots
    /\ pc = [p \in Procs |-> IF p = "p1" THEN "idle" ELSE "off"]
    /\ runsLeft = 1
    /\ given \in {[AllInputs EXCEPT !.root = r] : r \in Roots}
    /\ InitProcess

\* Two invocations that may overlap, on a root that holds no gallery.
InitConc ==
    /\ fs \in FreshRoots
    /\ pc = [p \in Procs |-> "idle"]
    /\ runsLeft = Cardinality(Procs)
    /\ given = OverlapInputs
    /\ InitProcess

(***************************************************************************)
(* The steps of main().                                                    *)
(***************************************************************************)
\* The end of an invocation: its exit status and what it leaves behind.
Finish(p, how, code, after) ==
    /\ pc' = [pc EXCEPT ![p] = "done"]
    /\ outcome' = [outcome EXCEPT ![p] = how]
    /\ status' = [status EXCEPT ![p] = code]
    /\ hist' = Append(hist, [proc |-> p, force |-> force[p], outcome |-> how,
                             status |-> code, wrote |-> wrote[p],
                             json |-> NameGalleryJson \in DOMAIN after.top])

\* A new invocation: parse_args.
Invoke(p, f) ==
    /\ pc[p] \in {"idle", "done"}
    /\ runsLeft > 0
    /\ f \in given.force
    /\ runsLeft' = runsLeft - 1
    /\ pc' = [pc EXCEPT ![p] = "check_possible"]
    /\ force' = [force EXCEPT ![p] = f]
    /\ cfg' = [cfg EXCEPT ![p] = <<>>]
    /\ pending' = [pending EXCEPT ![p] = {}]
    /\ todo' = [todo EXCEPT ![p] = {}]
    /\ io' = [io EXCEPT ![p] = NoCopy]
    /\ fs0' = [fs0 EXCEPT ![p] = fs]
    /\ fsAtCheck' = [fsAtCheck EXCEPT ![p] = fs]
    /\ existsResult' = [existsResult EXCEPT ![p] = FALSE]
    /\ asked' = [asked EXCEPT ![p] = {}]
    /\ answered' = [answered EXCEPT ![p] = {}]
    /\ waiting' = [waiting EXCEPT ![p] = FALSE]
    /\ inp' = [inp EXCEPT ![p] = NoInput]
    /\ wrote' = [wrote EXCEPT ![p] = FALSE]
    /\ outcome' = [outcome EXCEPT ![p] = "none"]
    /\ status' = [status EXCEPT ![p] = -1]
    /\ UNCHANGED <<fs, hist, lastWriter, given, waiting>>

\* main, lines 150-152.
CheckPossible(p) ==
    /\ pc[p] = "check_possible"
    /\ IF ~check_if_gallery_creation_possible(fs)
       THEN Finish(p, "no_root", 1, fs)
       ELSE /\ pc' = [pc EXCEPT ![p] = "check_exists"]
            /\ UNCHANGED <<outcome, status, hist>>
    /\ UNCHANGED <<fs, force, cfg, pending, todo, io, fs0, fsAtCheck,
                   existsResult, asked, answered, inp, wrote, runsLeft,
                   lastWriter,
                   given, waiting>>

\* main, lines 154-161.
CheckExists(p) ==
    /\ pc[p] = "check_exists"
    /\ fsAtCheck' = [fsAtCheck EXCEPT ![p] = fs]
    /\ existsResult' = [existsResult EXCEPT ![p] = check_if_gallery_already_exists(fs)]
    /\ IF ExitsWithoutForce(check_if_gallery_already_exists(fs), force[p])
       THEN Finish(p, "noop", 0, fs)
       ELSE /\ pc' = [pc EXCEPT ![p] = "copy_public"]
            /\ UNCHANGED <<outcome, status, hist>>
    /\ UNCHANGED <<fs, force, cfg, pending, todo, io, fs0, asked, answered,
                   inp, wrote, runsLeft, lastWriter,
                   given, waiting>>

\* The invocation has changed the file system if it had before, or if its
\* step does.
Changes(p) == wrote' = [wrote EXCEPT ![p] = @ \/ fs' # fs]

\* The destination tree of the copy_tree call the invocation is in.
Tree(p) == IF pc[p] = "copy_public" THEN "public" ELSE "html"

\* The invocation is in a copy_tree call, about to make the call of phase.
Copying(p, phase) ==
    /\ pc[p] \in {"copy_public", "copy_html"}
    /\ io[p].phase = phase

\* create_gallery_folder_structure, lines 87 and 97: the entry of copy_tree,
\* which lists the template and makes the destination directory.
CopyTreeBegin(p) ==
    /\ Copying(p, "start")
    /\ fs' = MakeTreeRoot(fs, Tree(p))
    /\ todo' = [todo EXCEPT ![p] = CopyTreeEntries(Tree(p))]
    /\ io' = [io EXCEPT ![p].phase = "next"]
    /\ Changes(p)
    /\ UNCHANGED <<pc, force, cfg, pending, fs0, fsAtCheck, existsResult, asked,
                   answered, inp, outcome, status, hist, runsLeft, lastWriter,
                   given, waiting>>

\* copy_tree: the next entry of the listing, in the order of os.listdir.  A
\* directory is made; for a file, copy_file starts with the test
\* os.path.exists(dst).
CopyTreeNext(p) ==
    /\ Copying(p, "next")
    /\ \E n \in todo[p] :
          /\ todo' = [todo EXCEPT ![p] = todo[p] \ {n}]
          /\ IF Tree(p) = "public" /\ n \in PublicTemplateDirs
             THEN /\ fs' = MakeDir(fs, n)
                  /\ UNCHANGED io
             ELSE /\ io' = [io EXCEPT ![p] =
                              [phase |-> IF FileExists(fs, Tree(p), n)
                                         THEN "unlink" ELSE "open",
                               file |-> n, live |-> FALSE]]
                  /\ UNCHANGED fs
    /\ Changes(p)
    /\ UNCHANGED <<pc, force, cfg, pending, fs0, fsAtCheck, existsResult, asked,
                   answered, inp, outcome, status, hist, runsLeft,
                   lastWriter,
                   given, waiting>>

\* copy_file: os.unlink(dst) of the file the test has found.  It raises when
\* the file is gone; a file object another invocation has open on the file
\* no longer writes to the path.
CopyFileUnlink(p) ==
    /\ Copying(p, "unlink")
    /\ IF FileExists(fs, Tree(p), io[p].file)
       THEN /\ fs' = Unlink(fs, Tree(p), io[p].file)
            /\ io' = [q \in Procs |->
                        IF q = p THEN [io[p] EXCEPT !.phase = "open"]
                        ELSE IF /\ pc[q] = pc[p]
                                /\ io[q].phase = "write"
                                /\ io[q].file = io[p].file
                             THEN [io[q] EXCEPT !.live = FALSE]
                             ELSE io[q]]
            /\ UNCHANGED <<pc, outcome, status, hist>>
       ELSE /\ UNCHANGED <<fs, io>>
            /\ Finish(p, "crashed", 1, fs)
    /\ Changes(p)
    /\ UNCHANGED <<force, cfg, pending, todo, fs0, fsAtCheck, existsResult,
                   asked, answered, inp, runsLeft, lastWriter,
                   given, waiting>>

\* copy_file: open(dst, 'wb').
CopyFileOpen(p) ==
    /\ Copying(p, "open")
    /\ fs' = OpenForCopy(fs, Tree(p), io[p].file)
    /\ io' = [io EXCEPT ![p].phase = "write", ![p].live = TRUE]
    /\ Changes(p)
    /\ UNCHANGED <<pc, force, cfg, pending, todo, fs0, fsAtCheck, existsResult,
                   asked, answered, inp, outcome, status, hist, runsLeft,
                   lastWriter,
                   given, waiting>>

\* copy_file: the write of the template file and the close.  The bytes reach
\* the path unless the file has been unlinked since the open.
CopyFileWrite(p) ==
    /\ Copying(p, "write")
    /\ fs' = IF io[p].live THEN WriteCopy(fs, Tree(p), io[p].file) ELSE fs
    /\ io' = [io EXCEPT ![p].phase = "utime", ![p].live = FALSE]
    /\ Changes(p)
    /\ UNCHANGED <<pc, force, cfg, pending, todo, fs0, fsAtCheck, existsResult,
                   asked, answered, inp, outcome, status, hist, runsLeft,
                   lastWriter,
                   given, waiting>>

\* copy_file: os.utime(dst, ...), which raises FileNotFoundError when the
\* path is gone.
CopyFileUtime(p) ==
    /\ Copying(p, "utime")
    /\ IF FileExists(fs, Tree(p), io[p].file)
       THEN /\ io' = [io EXCEPT ![p].phase = "chmod"]
            /\ UNCHANGED <<pc, outcome, status, hist>>
       ELSE /\ UNCHANGED io
            /\ Finish(p, "crashed", 1, fs)
    /\ UNCHANGED <<fs, force, cfg, pending, todo, fs0, fsAtCheck, existsResult,
                   asked, answered, inp, wrote, runsLeft, lastWriter,
                   given, waiting>>

\* copy_file: os.chmod(dst, ...), which raises FileNotFoundError when the
\* path is gone.
CopyFileChmod(p) ==
    /\ Copying(p, "chmod")
    /\ IF FileExists(fs, Tree(p), io[p].file)
       THEN /\ io' = [io EXCEPT ![p].phase = "next"]
            /\ UNCHANGED <<pc, outcome, status, hist>>
       ELSE /\ UNCHANGED io
            /\ Finish(p, "crashed", 1, fs)
    /\ UNCHANGED <<fs, force, cfg, pending, todo, fs0, fsAtCheck, existsResult,
                   asked, answered, inp, wrote, runsLeft, lastWriter,
                   given, waiting>>

\* copy_tree returns: every entry of the listing is copied.
CopyTreeEnd(p) ==
    /\ Copying(p, "next")
    /\ todo[p] = {}
    /\ pc' = [pc EXCEPT ![p] = IF pc[p] = "copy_public" THEN "glob"
                               ELSE "ask_title"]
    /\ io' = [io EXCEPT ![p] = NoCopy]
    /\ UNCHANGED <<fs, force, cfg, pending, todo, fs0, fsAtCheck, existsResult,
                   asked, answered, inp, wrote, outcome, status, hist, runsLeft,
                   lastWriter,
                   given, waiting>>

\* create_gallery_folder_structure, lines 91-93: the listing, of which the
\* loop body acts on the media names only.
Glob(p) ==
    /\ pc[p] = "glob"
    /\ pending' = [pending EXCEPT ![p] = {n \in GlobRoot(fs, given.root) : IsMediaName(n)}]
    /\ pc' = [pc EXCEPT ![p] = "move_media"]
    /\ UNCHANGED <<fs, force, cfg, todo, io, fs0, fsAtCheck, existsResult,
                   asked, answered, inp, wrote, outcome, status, hist, runsLeft,
                   lastWriter,
                   given, waiting>>

\* create_gallery_folder_structure, line 94, for one listed path.  The move
\* of a path that is gone, or into a directory that is gone, raises.
MoveOne(p, n) ==
    /\ pc[p] = "move_media"
    /\ n \in pending[p]
    /\ IF n \in DOMAIN fs.top /\ fs.photosdir
       THEN /\ fs' = MoveToPhotos(fs, n)
            /\ pending' = [pending EXCEPT ![p] = pending[p] \ {n}]
            /\ UNCHANGED <<pc, outcome, status, hist>>
       ELSE /\ UNCHANGED <<fs, pending>>
            /\ Finish(p, "crashed", 1, fs)
    /\ Changes(p)
    /\ UNCHANGED <<force, cfg, todo, io, fs0, fsAtCheck, existsResult, asked,
                   answered, inp, runsLeft, lastWriter,
                   given, waiting>>

\* The end of the loop of line 91.
MoveDone(p) ==
    /\ pc[p] = "move_media"
    /\ pending[p] = {}
    /\ pc' = [pc EXCEPT ![p] = "copy_html"]
    /\ UNCHANGED <<fs, force, cfg, pending, todo, io, fs0, fsAtCheck,
                   existsResult, asked, answered, inp, wrote, outcome, status,
                   hist, runsLeft, lastWriter,
                   given, waiting>>

\* The prompt an invocation at label is about to show, or is blocked in.
PromptAt(label) ==
    IF label = "ask_title" THEN "title"
    ELSE IF label = "ask_description" THEN "description"
    ELSE "thumbnail"

\* create_gallery_json, lines 120, 123 and 127: the first half of input(),
\* which writes the prompt to stdout and then blocks on stdin.  Before the
\* first prompt, lines 107-112 initialise gallery_config.
ShowPrompt(p) ==
    /\ pc[p] \in {"ask_title", "ask_description", "ask_thumbnail"}
    /\ ~waiting[p]
    /\ waiting' = [waiting EXCEPT ![p] = TRUE]
    /\ asked' = [asked EXCEPT ![p] = @ \cup {PromptAt(pc[p])}]
    /\ cfg' = IF pc[p] = "ask_title"
              THEN [cfg EXCEPT ![p] = InitialConfig(given.root)]
              ELSE cfg
    /\ UNCHANGED <<fs, pc, force, pending, todo, io, fs0, fsAtCheck,
                   existsResult, answered, inp, wrote, outcome, status, hist,
                   runsLeft, lastWriter, given>>

\* create_gallery_json, line 120: input() returns the answer.
AskTitle(p, answer) ==
    /\ pc[p] = "ask_title"
    /\ waiting[p]
    /\ answer \in given.title
    /\ waiting' = [waiting EXCEPT ![p] = FALSE]
    /\ cfg' = [cfg EXCEPT ![p] =
                 DictSet(cfg[p], "title",
                         PyStr(OrDefault(answer, DEFAULT_TITLE)))]
    /\ inp' = [inp EXCEPT ![p].title = answer]
    /\ answered' = [answered EXCEPT ![p] = @ \cup {"title"}]
    /\ pc' = [pc EXCEPT ![p] = "ask_description"]
    /\ UNCHANGED <<fs, force, pending, todo, io, fs0, fsAtCheck, existsResult,
                   wrote, asked, outcome, status, hist, runsLeft, lastWriter,
                   given>>

\* create_gallery_json, line 123: input() returns the answer.
AskDescription(p, answer) ==
    /\ pc[p] = "ask_description"
    /\ waiting[p]
    /\ answer \in given.description
    /\ waiting' = [waiting EXCEPT ![p] = FALSE]
    /\ cfg' = [cfg EXCEPT ![p] =
                 DictSet(cfg[p], "description",
                         PyStr(OrDefault(answer, DEFAULT_DESCRIPTION)))]
    /\ inp' = [inp EXCEPT ![p].description = answer]
    /\ answered' = [answered EXCEPT ![p] = @ \cup {"description"}]
    /\ pc' = [pc EXCEPT ![p] = "ask_thumbnail"]
    /\ UNCHANGED <<fs, force, pending, todo, io, fs0, fsAtCheck, existsResult,
                   wrote, asked, outcome, status, hist, runsLeft, lastWriter,
                   given>>

\* create_gallery_json, lines 127-132: input() returns the answer, and the
\* rest of one iteration of the loop.  An answer that is not accepted leaves
\* the invocation about to show the prompt again.
AskThumbnail(p, answer) ==
    /\ pc[p] = "ask_thumbnail"
    /\ waiting[p]
    /\ answer \in given.thumbnail
    /\ waiting' = [waiting EXCEPT ![p] = FALSE]
    /\ inp' = [inp EXCEPT ![p].thumbnail = answer]
    /\ answered' = [answered EXCEPT ![p] = @ \cup {"thumbnail"}]
    /\ LET thumbnail_size == OrDefault(answer, DEFAULT_THUMBNAIL_HEIGHT)
       IN  IF IsDigit(thumbnail_size)
           THEN IF IntRaises(thumbnail_size)
                THEN /\ Finish(p, "crashed", 1, fs)
                     /\ UNCHANGED cfg
                ELSE IF /\ IntLE(IntOf(32), IntValue(thumbnail_size))
                        /\ IntLE(IntValue(thumbnail_size), IntOf(1024))
                     THEN /\ cfg' = [cfg EXCEPT ![p] =
                                       DictSet(cfg[p], "thumbnail_height",
                                               PyInt(IntValue(thumbnail_size)))]
                          /\ pc' = [pc EXCEPT ![p] = "open_json"]
                          /\ UNCHANGED <<outcome, status, hist>>
                     ELSE UNCHANGED <<cfg, pc, outcome, status, hist>>
           ELSE UNCHANGED <<cfg, pc, outcome, status, hist>>
    /\ UNCHANGED <<fs, force, pending, todo, io, fs0, fsAtCheck, existsResult,
                   wrote, asked, runsLeft, lastWriter,
                   given>>

\* create_gallery_json, lines 135-136: open(gallery_config_path, 'w').
OpenJson(p) ==
    /\ pc[p] = "open_json"
    /\ fs' = OpenForWrite(fs, NameGalleryJson)
    /\ pc' = [pc EXCEPT ![p] = "dump_json"]
    /\ Changes(p)
    /\ UNCHANGED <<force, cfg, pending, todo, io, fs0, fsAtCheck, existsResult,
                   asked, answered, inp, outcome, status, hist, runsLeft,
                   lastWriter,
                   given, waiting>>

\* create_gallery_json, line 137, and the return of main: json.dump
\* fills the buffer of the file object, which the end of the with block
\* writes out in one piece and closes.
DumpJson(p) ==
    /\ pc[p] = "dump_json"
    /\ LET doc == JsonDump(cfg[p])
           after == [fs EXCEPT !.top =
                        Put(fs.top, NameGalleryJson,
                            WriteAtStart(fs.top[NameGalleryJson], doc,
                                         JsonLength(doc)))]
       IN  /\ fs' = after
           /\ Finish(p, "written", 0, after)
    /\ lastWriter' = p
    /\ Changes(p)
    /\ UNCHANGED <<force, cfg, pending, todo, io, fs0, fsAtCheck, existsResult,
                   asked, answered, inp, runsLeft,
                   given, waiting>>

\* create_gallery_json, lines 120, 123 and 127: input(), blocked after its
\* prompt, raises.  EOFError (the input is at its end) ends the invocation
\* with status 1; KeyboardInterrupt (SIGINT) ends it by the signal, which a
\* shell reports as status 130 and subprocess as return code -2.
Interrupt(p, failure) ==
    /\ pc[p] \in {"ask_title", "ask_description", "ask_thumbnail"}
    /\ waiting[p]
    /\ failure \in given.failure
    /\ waiting' = [waiting EXCEPT ![p] = FALSE]
    /\ Finish(p, "killed", IF failure = "EOFError" THEN 1 ELSE 130, fs)
    /\ UNCHANGED <<fs, force, cfg, pending, todo, io, fs0, fsAtCheck,
                   existsResult, asked, answered, inp, wrote, runsLeft,
                   lastWriter, given>>

Next ==
    \/ \E p \in Procs, f \in BOOLEAN : Invoke(p, f)
    \/ \E p \in Procs : CheckPossible(p)
    \/ \E p \in Procs : CheckExists(p)
    \/ \E p \in Procs : CopyTreeBegin(p)
    \/ \E p \in Procs : CopyTreeNext(p)
    \/ \E p \in Procs : CopyFileUnlink(p)
    \/ \E p \in Procs : CopyFileOpen(p)
    \/ \E p \in Procs : CopyFileWrite(p)
    \/ \E p \in Procs : CopyFileUtime(p)
    \/ \E p \in Procs : CopyFileChmod(p)
    \/ \E p \in Procs : CopyTreeEnd(p)
    \/ \E p \in Procs : Glob(p)
    \/ \E p \in Procs, n \in UserNames : MoveOne(p, n)
    \/ \E p \in Procs : MoveDone(p)
    \/ \E p \in Procs : ShowPrompt(p)
    \/ \E p \in Procs, a \in TitleAnswers : AskTitle(p, a)
    \/ \E p \in Procs, a \in DescriptionAnswers : AskDescription(p, a)
    \/ \E p \in Procs, a \in ThumbnailAnswers : AskThumbnail(p, a)
    \/ \E p \in Procs : OpenJson(p)
    \/ \E p \in Procs : DumpJson(p)
    \/ \E p \in Procs, failure \in InputFailures : Interrupt(p, failure)

\* Up to MaxRuns invocations, one after the other.
Spec == Init /\ [][Next]_vars

\* One invocation on any initial file system.
SpecOne == InitOne /\ [][Next]_vars

\* Two invocations that may overlap.
SpecConc == InitConc /\ [][Next]_vars

(***************************************************************************)
(* Properties.                                                             *)
(***************************************************************************)
MarkerNames == {NameGalleryJson, NameImagesData, NameIndexTemplate, NamePublic}

\* At least one of the four marker paths exists under the root.
MarkerPresent(f) ==
    /\ f.root
    /\ \/ (DOMAIN f.top) \cap MarkerNames # {}
       \/ f.pubdir

Started(p) == pc[p] \notin {"off", "idle"}

PastRootCheck(p) == Started(p) /\ pc[p] # "check_possible"

PastMarkerCheck(p) ==
    /\ PastRootCheck(p)
    /\ pc[p] # "check_exists"
    /\ outcome[p] # "no_root"

\* C1: an invocation without --force on a root that holds at least one of the
\* four markers ends with status 0, having changed nothing on the file
\* system and shown no prompt.
C1_NoForceOnExistingGalleryIsNoOp ==
    \A p \in Procs :
        (PastMarkerCheck(p) /\ ~force[p] /\ MarkerPresent(fs0[p])) =>
            /\ pc[p] = "done"
            /\ status[p] = 0
            /\ ~wrote[p]
            /\ fs = fs0[p]
            /\ asked[p] = {}

\* C1 happens: a run without --force has ended on a root whose only marker
\* is images_data.json.
C1_Witness ==
    \E p \in Procs :
        /\ pc[p] = "done"
        /\ ~force[p]
        /\ (DOMAIN fs0[p].top) \cap MarkerNames = {NameImagesData}
        /\ ~fs0[p].pubdir
        /\ (DOMAIN fs0[p].top) \cap UserNames = UserNames

\* C2: on a root that does not exist, check_if_gallery_creation_possible is
\* false and the invocation ends with status 1, with or without --force,
\* before any copy, move, prompt or write: the file system is unchanged.
C2_MissingRootExitsOne ==
    \A p \in Procs :
        (PastRootCheck(p) /\ ~fs0[p].root) =>
            /\ ~check_if_gallery_creation_possible(fs0[p])
            /\ pc[p] = "done"
            /\ status[p] = 1
            /\ ~wrote[p]
            /\ asked[p] = {}
            /\ cfg[p] = <<>>
            /\ fs = fs0[p]
            /\ fs = AbsentRoot

\* C2 happens: a run with --force has ended on a missing root.
C2_Witness ==
    \E p \in Procs : pc[p] = "done" /\ force[p] /\ ~fs0[p].root

\* C3: check_if_gallery_already_exists returns true exactly when at least one
\* of the four marker paths exists, and it changes nothing.
C3_MarkerCheckIffAnyMarker ==
    \A p \in Procs :
        PastMarkerCheck(p) =>
            /\ existsResult[p] = MarkerPresent(fsAtCheck[p])
            /\ ((pc[p] = "copy_public" /\ io[p].phase = "start")
                    \/ outcome[p] = "noop") =>
                   (fs = fsAtCheck[p] /\ ~wrote[p])

\* C3 happens: the check has returned true on a root whose only marker is the
\* public directory.
C3_Witness ==
    \E p \in Procs :
        /\ pc[p] = "copy_public"
        /\ existsResult[p]
        /\ fsAtCheck[p].pubdir
        /\ (DOMAIN fsAtCheck[p].top) \cap MarkerNames = {}

\* The extension of a file name: what follows its last dot, the dot included
\* (a dot that starts the name starts no extension).
Extension(n) ==
    LET dots == {i \in 2..Len(n) : n[i] = Dot}
    IN  IF dots = {} THEN <<>>
        ELSE SubSeq(n, CHOOSE i \in dots : \A j \in dots : j <= i, Len(n))

AllowList == {Str(<<".","j","p","g">>), Str(<<".","j","p","e","g">>),
              Str(<<".","g","i","f">>), Str(<<".","m","p","4">>)}

HasMediaExtension(n) == Lower(Extension(n)) \in AllowList

\* The scaffold of invocation p is complete and its config is not yet written.
Scaffolded(p) ==
    pc[p] \in {"ask_title", "ask_description", "ask_thumbnail", "open_json"}

\* File n of the root as the run found it is now in public/images/photos,
\* with its content, and no longer at the root.
Relocated(p, n) ==
    /\ n \in DOMAIN fs.photos
    /\ fs.photos[n] = fs0[p].top[n]
    /\ n \notin DOMAIN fs.top

\* File n of the root as the run found it is still there, unchanged, and not
\* in public/images/photos.
Untouched(p, n) ==
    /\ n \in DOMAIN fs.top
    /\ fs.top[n] = fs0[p].top[n]
    /\ n \notin DOMAIN fs.photos

\* C4: after create_gallery_folder_structure every file of the root with a
\* media extension (compared case-insensitively) has been moved into
\* public/images/photos under its name, and every other file of the root is
\* still there, unchanged.
C4_Original ==
    \A p \in Procs :
        Scaffolded(p) =>
            \A n \in DOMAIN fs0[p].top :
                IF HasMediaExtension(n) THEN Relocated(p, n) ELSE Untouched(p, n)

\* An answer the thumbnail prompt is to accept: empty, or a string of decimal
\* digits whose value is in [32, 1024].
IsIntegerString(a) == Len(a) > 0 /\ \A i \in 1..Len(a) : IsDecimalChar(a[i])

\* The int v is a value from lo to hi.
IntIn(v, lo, hi) ==
    /\ ~v.neg
    /\ Len(v.mag) <= Len(NatDigits(hi))
    /\ DigitsNat(v.mag) \in lo..hi

Acceptable(a) ==
    \/ a = <<>>
    \/ IsIntegerString(a) /\ IntIn(IntValue(a), 32, 1024)

AcceptedValue(a) == IF a = <<>> THEN IntOf(320) ELSE IntValue(a)

\* gallery.json is as the run found it: absent, or with the content it had.
ConfigFileAsFound(p) ==
    IF NameGalleryJson \in DOMAIN fs0[p].top
    THEN /\ NameGalleryJson \in DOMAIN fs.top
         /\ fs.top[NameGalleryJson] = fs0[p].top[NameGalleryJson]
    ELSE NameGalleryJson \notin DOMAIN fs.top

\* C5 as stated: the thumbnail prompt is repeated until the first answer that
\* is empty or an integer string with value in [32, 1024], which ends the
\* loop with its value (320 for the empty answer); every other answer leaves
\* the invocation at the prompt, its config and the file system unchanged.
C5_ThumbnailLoop ==
    \A p \in Procs :
        "thumbnail" \in answered[p] =>
            IF Acceptable(inp[p].thumbnail)
            THEN /\ pc[p] \in {"open_json", "dump_json"} \/ outcome[p] = "written"
                 /\ DictHas(cfg[p], "thumbnail_height")
                 /\ DictGet(cfg[p], "thumbnail_height") =
                        PyInt(AcceptedValue(inp[p].thumbnail))
            ELSE /\ pc[p] = "ask_thumbnail" \/ outcome[p] = "killed"
                 /\ ~DictHas(cfg[p], "thumbnail_height")
                 /\ ConfigFileAsFound(p)

JsonString(s) == [j |-> "string", v |-> s]

\* The text of a file is one whole JSON document.
JsonParses(content) ==
    /\ content.k = "text"
    /\ Len(content.segs) = 1
    /\ content.segs[1].upto = JsonLength(content.segs[1].doc)

\* json.load of a file that holds one whole document.
JsonLoad(content) == content.segs[1].doc

JsonMember(content, key) ==
    content.members[CHOOSE i \in 1..Len(content.members) :
                        content.members[i].key = key].value

RECURSIVE Joined(_)
\* The components, one separator between each two.
Joined(components) ==
    IF Len(components) = 1 THEN components[1]
    ELSE components[1] \o <<Slash>> \o Joined(Tail(components))

\* The path of the components under the root as the user gave it: the root,
\* one separator if the root does not end with one, the components.
UnderRoot(root, components) ==
    (IF root[Len(root)] = Slash THEN root ELSE Append(root, Slash)) \o
    Joined(components)

ConfigKeys == {"images_data_file", "public_path", "images_path",
               "thumbnails_path", "title", "description", "thumbnail_height"}

\* The gallery.json record for the answers given: seven keys, the four paths
\* under the root, the title and description or their defaults, and an
\* integer thumbnail height in [32, 1024].
IsGalleryRecord(content, answers) ==
    /\ content.k = "json"
    /\ Len(content.members) = 7
    /\ {content.members[i].key : i \in 1..7} = ConfigKeys
    /\ JsonMember(content, "images_data_file") =
           JsonString(UnderRoot(given.root, <<NameImagesData>>))
    /\ JsonMember(content, "public_path") =
           JsonString(UnderRoot(given.root, <<NamePublic>>))
    /\ JsonMember(content, "images_path") =
           JsonString(UnderRoot(given.root,
                                <<NamePublic, NameImages, NamePhotos>>))
    /\ JsonMember(content, "thumbnails_path") =
           JsonString(UnderRoot(given.root,
                                <<NamePublic, NameImages, NameThumbnails>>))
    /\ JsonMember(content, "title") =
           JsonString(IF answers.title = <<>>
                      THEN Str(<<"M","y"," ","G","a","l","l","e","r","y">>)
                      ELSE answers.title)
    /\ JsonMember(content, "description") =
           JsonString(IF answers.description = <<>>
                      THEN Str(<<"D","e","f","a","u","l","t"," ",
                                 "d","e","s","c","r","i","p","t","i","o","n",
                                 " ","o","f"," ","m","y"," ",
                                 "g","a","l","l","e","r","y">>)
                      ELSE answers.description)
    /\ JsonMember(content, "thumbnail_height").j = "number"
    /\ IntIn(JsonMember(content, "thumbnail_height").v, 32, 1024)

\* gallery.json parses, and is the record for the answers given.
ConfigFileHolds(answers) ==
    /\ NameGalleryJson \in DOMAIN fs.top
    /\ JsonParses(fs.top[NameGalleryJson])
    /\ IsGalleryRecord(JsonLoad(fs.top[NameGalleryJson]), answers)

\* C7: every gallery.json that create_gallery_json writes is the record with
\* exactly the seven keys, the four paths derived from the root, the entered
\* or default title and description, and an integer thumbnail_height in
\* [32, 1024]; it replaces a gallery.json that was there.
C7_GalleryJsonRecord ==
    \A p \in Procs :
        outcome[p] = "written" => ConfigFileHolds(inp[p])

\* C7 happens: gallery.json has been written over an earlier one, with the
\* default title and an entered description.
C7_Witness ==
    \E p \in Procs :
        /\ outcome[p] = "written"
        /\ NameGalleryJson \in DOMAIN fs0[p].top
        /\ fs0[p].top[NameGalleryJson] = EarlierGalleryJson
        /\ fs.top[NameGalleryJson] # EarlierGalleryJson
        /\ inp[p].title = <<>>
        /\ inp[p].description = DescriptionEntered
        /\ inp[p].thumbnail = Str(<<"1","0","2","4">>)

\* The calls of main() in program order.
ProgramOrder == <<"check_possible", "check_exists", "copy_public", "glob",
                  "move_media", "copy_html", "ask_title", "ask_description",
                  "ask_thumbnail", "open_json", "dump_json">>

Position(label) == CHOOSE i \in 1..Len(ProgramOrder) : ProgramOrder[i] = label

\* Every step of an invocation goes to the next call in program order, or
\* ends the invocation.
StepsForward ==
    \A p \in Procs :
        pc'[p] # pc[p] =>
            \/ pc[p] \in {"idle", "done"} /\ pc'[p] = "check_possible"
            \/ pc[p] \notin {"idle", "done"} /\ pc'[p] = "done"
            \/ /\ pc[p] \notin {"idle", "done"}
               /\ pc'[p] \notin {"idle", "done"}
               /\ Position(pc'[p]) = Position(pc[p]) + 1

\* The file system changes only in a step of an invocation that both checks
\* have let through.
WritesOnlyAfterChecks ==
    fs' # fs =>
        \E p \in Procs :
            /\ pc[p] \in {"copy_public", "move_media", "copy_html", "open_json",
                         "dump_json"}
            /\ fs0[p].root
            /\ ~existsResult[p] \/ force[p]

ConfigFileChanges ==
    \/ (NameGalleryJson \in DOMAIN fs'.top) # (NameGalleryJson \in DOMAIN fs.top)
    \/ /\ NameGalleryJson \in DOMAIN fs.top
       /\ fs'.top[NameGalleryJson] # fs.top[NameGalleryJson]

\* gallery.json is opened and written only by an invocation whose scaffold is
\* complete and whose three prompts are answered, the thumbnail height
\* accepted; the write ends the invocation with status 0.
ConfigWrittenLast ==
    ConfigFileChanges =>
        \E p \in Procs :
            /\ pc[p] \in {"open_json", "dump_json"}
            /\ pc'[p] # pc[p]
            /\ todo[p] = {}
            /\ fs.pubdir /\ fs.photosdir
            /\ PublicTemplateFiles \subseteq DOMAIN fs.pub
            /\ HtmlTemplateFiles \subseteq DOMAIN fs.top
            /\ pending[p] = {}
            /\ answered[p] = {"title", "description", "thumbnail"}
            /\ DictHas(cfg[p], "thumbnail_height")
            /\ IntIn(DictGet(cfg[p], "thumbnail_height").v, 32, 1024)
            /\ pc[p] = "dump_json" =>
                   pc'[p] = "done" /\ status'[p] = 0 /\ outcome'[p] = "written"

\* public/images/photos exists from the copy of the public template on.
PhotosDirBeforeMoves ==
    \A p \in Procs : pc[p] \in {"glob", "move_media"} => fs.pubdir /\ fs.photosdir

\* An invocation is at a prompt, or past it, only with the prompts before it
\* shown.
PromptsInOrder ==
    \A p \in Procs :
        /\ pc[p] \in {"check_possible", "check_exists", "copy_public", "glob",
                      "move_media", "copy_html"} => asked[p] = {}
        /\ pc[p] = "ask_title" =>
               asked[p] = (IF waiting[p] THEN {"title"} ELSE {})
        /\ pc[p] = "ask_description" =>
               asked[p] = {"title"} \cup
                          (IF waiting[p] THEN {"description"} ELSE {})
        /\ pc[p] = "ask_thumbnail" =>
               /\ {"title", "description"} \subseteq asked[p]
               /\ waiting[p] => "thumbnail" \in asked[p]
        /\ answered[p] \subseteq asked[p]
        /\ pc[p] \in {"open_json", "dump_json"} =>
               answered[p] = {"title", "description", "thumbnail"}
        /\ outcome[p] = "written" => status[p] = 0

\* C8: the steps of main happen in program order and never go back: root
\* check, marker check with the force decision, copy of the public template,
\* move of the media, copy of the HTML template, the three prompts, the write
\* of gallery.json.  Nothing is written before both checks have let the run
\* through, public/images/photos exists before the first move, gallery.json is
\* written only after the scaffold and the accepted thumbnail height, and a
\* run that writes it exits with status 0.
C8_StepsInOrder ==
    /\ [][StepsForward /\ WritesOnlyAfterChecks /\ ConfigWrittenLast]_vars
    /\ [](PhotosDirBeforeMoves /\ PromptsInOrder)

\* C8 happens: a run with --force on an existing gallery has gone through
\* every step and written gallery.json.
C8_Witness ==
    \E p \in Procs :
        /\ outcome[p] = "written"
        /\ status[p] = 0
        /\ force[p]
        /\ existsResult[p]
        /\ ~fs0[p].photosdir
        /\ NameA \in DOMAIN fs0[p].top
        /\ NameA \in DOMAIN fs.photos

\* The tree under root/public.
PublicTree(f) == <<f.pubdir, f.photosdir, f.pub, f.photos>>

\* The invocation that has just ended followed a complete run with --force.
SecondForcedRun(p) ==
    /\ Len(hist) >= 2
    /\ hist[Len(hist)].proc = p
    /\ outcome[p] = "written"
    /\ force[p]
    /\ hist[Len(hist) - 1].outcome = "written"
    /\ hist[Len(hist) - 1].force

\* C6: when the full flow with --force has run twice in a row on a root,
\* gallery.json holds the second run's title, description and thumbnail
\* height and nothing of the first run's, and the tree under root/public is
\* the one the first run left, with nothing duplicated or added.
C6_ForcedRerunIdempotent ==
    \A p \in Procs :
        SecondForcedRun(p) =>
            /\ ConfigFileHolds(inp[p])
            /\ JsonMember(JsonLoad(fs.top[NameGalleryJson]),
                          "thumbnail_height").v = AcceptedValue(inp[p].thumbnail)
            /\ PublicTree(fs) = PublicTree(fs0[p])
            /\ DOMAIN fs.top = DOMAIN fs0[p].top

\* C6 happens: two complete runs with --force in a row, the first of which
\* moved a.JPG and b.mp4, the second with answers other than the first's.
C6_Witness ==
    \E p \in Procs :
        /\ SecondForcedRun(p)
        /\ {NameA, NameB} \subseteq DOMAIN fs.photos
        /\ fs0[p].top[NameGalleryJson] # fs.top[NameGalleryJson]
        /\ JsonParses(fs0[p].top[NameGalleryJson])
        /\ JsonLength(JsonLoad(fs.top[NameGalleryJson])) <
               JsonLength(JsonLoad(fs0[p].top[NameGalleryJson]))
        /\ inp[p].title = TitleEntered

\* gallery.json starts with the whole record that invocation p has dumped.
ConfigFileStartsWith(p) ==
    /\ NameGalleryJson \in DOMAIN fs.top
    /\ fs.top[NameGalleryJson].k = "text"
    /\ fs.top[NameGalleryJson].segs # <<>>
    /\ LET first == fs.top[NameGalleryJson].segs[1]
       IN  /\ first.doc = JsonDump(cfg[p])
           /\ first.upto = JsonLength(first.doc)
           /\ IsGalleryRecord(first.doc, inp[p])
           /\ JsonMember(first.doc, "thumbnail_height").v =
                  AcceptedValue(inp[p].thumbnail)

\* C9: nothing locks the root.  The marker check of an invocation is decided
\* by the file system as it is at that moment, whatever other invocations are
\* doing, so two invocations without --force can both pass it on a root that
\* holds no marker; both then scaffold and write gallery.json.  A write goes
\* over what the file holds: once no invocation has the file open, it starts
\* with the whole record of the invocation that wrote last, followed by
\* nothing but what a longer record written before it reached beyond it.
C9_NoLockLastWriterWins ==
    /\ \A p \in Procs :
           PastMarkerCheck(p) =>
               /\ existsResult[p] = MarkerPresent(fsAtCheck[p])
               /\ (~force[p] /\ outcome[p] # "noop") => ~MarkerPresent(fsAtCheck[p])
    /\ \A p \in Procs :
           ( /\ lastWriter = p
             /\ outcome[p] = "written"
             /\ \A q \in Procs : pc[q] # "dump_json" ) =>
               /\ ConfigFileStartsWith(p)
               /\ \A i \in 2..Len(fs.top[NameGalleryJson].segs) :
                      /\ fs.top[NameGalleryJson].segs[i].doc # JsonDump(cfg[p])
                      /\ fs.top[NameGalleryJson].segs[i].upto >
                             fs.top[NameGalleryJson].segs[i - 1].upto

\* C9 happens: two invocations without --force both passed the marker check
\* before either had written anything, both scaffolded and wrote
\* gallery.json, the later one after the earlier one had closed it, and the
\* file holds the record of the later one alone, whose answers differ from
\* the earlier's.
C9_Witness ==
    \E p, q \in Procs :
        /\ p # q
        /\ ~force[p] /\ ~force[q]
        /\ outcome[p] = "written" /\ outcome[q] = "written"
        /\ fsAtCheck[p] = fs0[p] /\ fsAtCheck[q] = fs0[p]
        /\ ~MarkerPresent(fsAtCheck[p])
        /\ lastWriter = q
        /\ inp[p].title # inp[q].title
        /\ ConfigFileHolds(inp[q])
        /\ ~IsGalleryRecord(JsonLoad(fs.top[NameGalleryJson]), inp[p])

\* Two overlapping writes have left gallery.json with the record of the last
\* writer followed by the end of the other's longer record: no JSON document.
ConfigFileTorn ==
    \E p, q \in Procs :
        /\ p # q
        /\ outcome[p] = "written" /\ outcome[q] = "written"
        /\ lastWriter = q
        /\ ConfigFileStartsWith(q)
        /\ ~JsonParses(fs.top[NameGalleryJson])

\* An invocation has died in copy_tree: another invocation unlinked the file
\* it had just written.
CopyTreeCrashed ==
    \E p \in Procs :
        /\ outcome[p] = "crashed"
        /\ status[p] = 1
        /\ io[p].phase \in {"unlink", "utime", "chmod"}
        /\ asked[p] = {}

\* An invocation is running.
Running(p) == pc[p] \notin {"off", "idle", "done"}

\* C10: once the copy into root/public of any run is complete,
\* check_if_gallery_already_exists is true and stays true.  So every later
\* run without --force changes nothing and exits with status 0, after a
\* complete run and after a run that died at a prompt; in the second case no
\* run without --force ever creates gallery.json.
C10_ScaffoldMarksGallery ==
    /\ [](\A p \in Procs : wrote[p] => check_if_gallery_already_exists(fs))
    /\ [][check_if_gallery_already_exists(fs) =>
              check_if_gallery_already_exists(fs')]_vars
    /\ [](\A i, j \in 1..Len(hist) :
              (i < j /\ hist[i].wrote /\ ~hist[j].force) =>
                  /\ hist[j].outcome = "noop"
                  /\ hist[j].status = 0
                  /\ ~hist[j].wrote)
    /\ [](\A p \in Procs :
              (outcome[p] = "noop" /\ hist # <<>> /\ hist[Len(hist)].proc = p) =>
                  fs = fs0[p])
    /\ [](\A i \in 1..Len(hist) :
              ( /\ hist[i].outcome = "killed"
                /\ ~hist[i].json
                /\ \A j \in (i + 1)..Len(hist) : ~hist[j].force
                /\ \A p \in Procs : Running(p) => ~force[p] ) =>
                  NameGalleryJson \notin DOMAIN fs.top)

\* C10 happens: a run died at a prompt before gallery.json was written, and
\* the run after it, without --force, has ended without doing anything.
C10_Witness ==
    /\ Len(hist) >= 2
    /\ hist[1].outcome = "killed"
    /\ ~hist[1].json
    /\ hist[2].outcome = "noop"
    /\ ~hist[2].force
    /\ hist[2].status = 0
    /\ NameGalleryJson \notin DOMAIN fs.top
    /\ fs.pubdir

====
